---- MODULE Spec2Model ----
(***************************************************************************)
(* Poker hand and tournament execution engine of poker-agent-arena:        *)
(* BettingRound, SidePotCalculator, HandController, Table, TableBalancer   *)
(* and TournamentManager, as state machines.                               *)
(*                                                                         *)
(* Python lists are functions over 0..n-1 (so that the index arithmetic of *)
(* the source, "(i + 1) % n", reads the same) or sequences where only the  *)
(* order matters.  Wallets are the integers 1..n; NoWallet stands for None.*)
(* The cards a seeded Deck deals are fixed when the HandController is      *)
(* built; of the cards the engine only uses the order of the players'      *)
(* evaluated hands, which a hand carries as `strength` (higher is better). *)
(***************************************************************************)
EXTENDS Integers, Sequences, FiniteSets, TLC

VARIABLES hand, tm

vars == <<hand, tm>>

(***************************************************************************)
(* Bounds of the model                                                     *)
(***************************************************************************)
MaxHandPlayers == 3
MaxStack == 3
MaxRaiseTo == 4
MaxStrength == 2
DeepStack == 5
LongStack == 7
BigStack == 6
MaxReraiseTo == 5
MaxBet == 3
MaxPotAmount == 3
MaxPots == 2
DeckSize == 4
MaxSeedByte == 23
MaxEntropy == 1
NRanks == 6
NSuits == 3

NoWallet == 0

(***************************************************************************)
(* Helpers for lists                                                       *)
(***************************************************************************)
Len0(f) == Cardinality(DOMAIN f)

MinOf(S) == CHOOSE x \in S : \A y \in S : x <= y

MaxOf(S) == CHOOSE x \in S : \A y \in S : x >= y

RECURSIVE SumOver(_, _)
SumOver(f, S) ==
    IF S = {} THEN 0
    ELSE LET x == CHOOSE y \in S : TRUE IN f[x] + SumOver(f, S \ {x})

InSeq(x, s) == \E i \in 1..Len(s) : s[i] = x

RECURSIVE SortedSeq(_)
SortedSeq(S) ==
    IF S = {} THEN <<>>
    ELSE LET m == MinOf(S) IN <<m>> \o SortedSeq(S \ {m})

(***************************************************************************)
(* betting.py: Action, PlayerInHand                                        *)
(***************************************************************************)
Action(type, has_amount, amount) ==
    [action_type |-> type, has_amount |-> has_amount, amount |-> amount]

Action_fold == Action("fold", FALSE, 0)

Action_check == Action("check", FALSE, 0)

Action_call == Action("call", FALSE, 0)

Action_raise_to(amount) == Action("raise", TRUE, amount)

PlayerInHand(wallet, stack) ==
    [wallet |-> wallet, stack |-> stack, current_bet |-> 0,
     is_active |-> TRUE, is_all_in |-> FALSE, has_acted |-> FALSE]

(***************************************************************************)
(* betting.py: BettingRound.  A round r is [big_blind, state]; state is    *)
(* the BettingState, whose players list is the list handed to __init__.    *)
(***************************************************************************)
CanAct(p) == p.is_active /\ ~p.is_all_in

BettingRound_init(players, pot, big_blind) ==
    LET ps == [i \in DOMAIN players |-> [players[i] EXCEPT !.has_acted = FALSE]]
        able == {i \in DOMAIN ps : CanAct(ps[i])}
    IN  [big_blind |-> big_blind,
         state |-> [pot |-> pot,
                    current_bet |-> 0,
                    min_raise |-> big_blind,
                    last_raise_amount |-> big_blind,
                    players |-> ps,
                    action_on |-> IF able = {} THEN 0 ELSE MinOf(able),
                    num_active |-> Cardinality({i \in DOMAIN ps : ps[i].is_active}),
                    num_to_act |-> Cardinality(able)]]

\* get_valid_actions with ">= 0" for "> 0": a bet to call is seen where none is.
get_valid_actions_owes_nothing(r) ==
    LET player == r.state.players[r.state.action_on]
        amount_to_call == r.state.current_bet - player.current_bet
    IN  IF ~player.is_active \/ player.is_all_in THEN <<>>
        ELSE IF amount_to_call >= 0 THEN <<"fold", "call", "raise">>
        ELSE <<"check", "raise">>

get_valid_actions(r) ==
    LET player == r.state.players[r.state.action_on]
        amount_to_call == r.state.current_bet - player.current_bet
    IN  IF ~player.is_active \/ player.is_all_in THEN <<>>
        ELSE IF amount_to_call > 0 THEN <<"fold", "call", "raise">>
        ELSE <<"check", "raise">>

_apply_fold(r) ==
    [r EXCEPT !.state.players[r.state.action_on].is_active = FALSE,
              !.state.num_active = @ - 1,
              !.state.num_to_act = @ - 1]

_apply_check(r) ==
    [r EXCEPT !.state.num_to_act = @ - 1]

\* _apply_call leaving the pot as it was.
_apply_call_outside_pot(r) ==
    LET player == r.state.players[r.state.action_on]
        owed == r.state.current_bet - player.current_bet
        short == owed >= player.stack
        amount_to_call == IF short THEN player.stack ELSE owed
    IN  [r EXCEPT !.state.players[r.state.action_on] =
                      [player EXCEPT !.is_all_in = IF short THEN TRUE ELSE @,
                                     !.stack = @ - amount_to_call,
                                     !.current_bet = @ + amount_to_call],
                  !.state.num_to_act = @ - 1]

_apply_call(r) ==
    LET player == r.state.players[r.state.action_on]
        owed == r.state.current_bet - player.current_bet
        short == owed >= player.stack
        amount_to_call == IF short THEN player.stack ELSE owed
    IN  [r EXCEPT !.state.players[r.state.action_on] =
                      [player EXCEPT !.is_all_in = IF short THEN TRUE ELSE @,
                                     !.stack = @ - amount_to_call,
                                     !.current_bet = @ + amount_to_call],
                  !.state.pot = @ + amount_to_call,
                  !.state.num_to_act = @ - 1]

\* _reset_action_needed counting the players without clearing has_acted.
_reset_action_needed_counts_only(r) ==
    LET ps == r.state.players
    IN  [r EXCEPT !.state.num_to_act =
                      Cardinality({i \in DOMAIN ps : CanAct(ps[i])})]

_reset_action_needed(r) ==
    LET ps == r.state.players
    IN  [r EXCEPT !.state.players =
                      [i \in DOMAIN ps |->
                          IF CanAct(ps[i]) THEN [ps[i] EXCEPT !.has_acted = FALSE]
                          ELSE ps[i]],
                  !.state.num_to_act =
                      Cardinality({i \in DOMAIN ps : CanAct(ps[i])})]

\* The result of a call that may raise InvalidActionError: raised tells
\* whether it did, r is the round afterwards.
Outcome(raised, r) == [raised |-> raised, r |-> r]

\* _apply_raise taking the chips before it tests the minimum raise.
_apply_raise_pays_before_test(r, action) ==
    IF ~action.has_amount THEN Outcome(TRUE, r)
    ELSE
    LET i == r.state.action_on
        player == r.state.players[i]
        asked == action.amount - player.current_bet
        is_all_in == asked >= player.stack
        total_to_put_in == IF is_all_in THEN player.stack ELSE asked
        raise_to_amount == IF is_all_in THEN player.current_bet + total_to_put_in
                           ELSE action.amount
        min_raise_to == r.state.current_bet + r.state.min_raise
        raise_amount == raise_to_amount - r.state.current_bet
        paid == [r EXCEPT !.state.players[i] =
                              [player EXCEPT !.is_all_in = IF is_all_in THEN TRUE ELSE @,
                                             !.stack = @ - total_to_put_in,
                                             !.current_bet = raise_to_amount],
                          !.state.pot = @ + total_to_put_in,
                          !.state.current_bet = raise_to_amount,
                          !.state.last_raise_amount =
                              IF raise_amount > 0 THEN raise_amount ELSE @,
                          !.state.min_raise =
                              IF raise_amount > 0 THEN raise_amount ELSE @]
        reset == _reset_action_needed(paid)
    IN  IF ~is_all_in /\ raise_to_amount < min_raise_to THEN Outcome(TRUE, paid)
        ELSE Outcome(FALSE, [reset EXCEPT !.state.players[i].has_acted = TRUE])

\* _apply_raise holding an all-in raise to the minimum raise as well.
_apply_raise_min_for_all_in(r, action) ==
    IF ~action.has_amount THEN Outcome(TRUE, r)
    ELSE
    LET i == r.state.action_on
        player == r.state.players[i]
        asked == action.amount - player.current_bet
        is_all_in == asked >= player.stack
        total_to_put_in == IF is_all_in THEN player.stack ELSE asked
        raise_to_amount == IF is_all_in THEN player.current_bet + total_to_put_in
                           ELSE action.amount
        min_raise_to == r.state.current_bet + r.state.min_raise
        raise_amount == raise_to_amount - r.state.current_bet
        paid == [r EXCEPT !.state.players[i] =
                              [player EXCEPT !.is_all_in = IF is_all_in THEN TRUE ELSE @,
                                             !.stack = @ - total_to_put_in,
                                             !.current_bet = raise_to_amount],
                          !.state.pot = @ + total_to_put_in,
                          !.state.current_bet = raise_to_amount,
                          !.state.last_raise_amount =
                              IF raise_amount > 0 THEN raise_amount ELSE @,
                          !.state.min_raise =
                              IF raise_amount > 0 THEN raise_amount ELSE @]
        reset == _reset_action_needed(paid)
    IN  IF raise_to_amount < min_raise_to THEN Outcome(TRUE, r)
        ELSE Outcome(FALSE, [reset EXCEPT !.state.players[i].has_acted = TRUE])

\* _apply_raise with a raise to the standing bet, a raise of nothing, held to
\* meet the minimum.
_apply_raise_of_zero(r, action) ==
    IF ~action.has_amount THEN Outcome(TRUE, r)
    ELSE
    LET i == r.state.action_on
        player == r.state.players[i]
        asked == action.amount - player.current_bet
        is_all_in == asked >= player.stack
        total_to_put_in == IF is_all_in THEN player.stack ELSE asked
        raise_to_amount == IF is_all_in THEN player.current_bet + total_to_put_in
                           ELSE action.amount
        raise_amount == raise_to_amount - r.state.current_bet
        paid == [r EXCEPT !.state.players[i] =
                              [player EXCEPT !.is_all_in = IF is_all_in THEN TRUE ELSE @,
                                             !.stack = @ - total_to_put_in,
                                             !.current_bet = raise_to_amount],
                          !.state.pot = @ + total_to_put_in,
                          !.state.current_bet = raise_to_amount,
                          !.state.last_raise_amount =
                              IF raise_amount > 0 THEN raise_amount ELSE @,
                          !.state.min_raise =
                              IF raise_amount > 0 THEN raise_amount ELSE @]
        reset == _reset_action_needed(paid)
    IN  IF ~is_all_in /\ raise_to_amount < r.state.current_bet THEN Outcome(TRUE, r)
        ELSE Outcome(FALSE, [reset EXCEPT !.state.players[i].has_acted = TRUE])

_apply_raise(r, action) ==
    IF ~action.has_amount THEN Outcome(TRUE, r)
    ELSE
    LET i == r.state.action_on
        player == r.state.players[i]
        asked == action.amount - player.current_bet
        is_all_in == asked >= player.stack
        total_to_put_in == IF is_all_in THEN player.stack ELSE asked
        raise_to_amount == IF is_all_in THEN player.current_bet + total_to_put_in
                           ELSE action.amount
        min_raise_to == r.state.current_bet + r.state.min_raise
        raise_amount == raise_to_amount - r.state.current_bet
        paid == [r EXCEPT !.state.players[i] =
                              [player EXCEPT !.is_all_in = IF is_all_in THEN TRUE ELSE @,
                                             !.stack = @ - total_to_put_in,
                                             !.current_bet = raise_to_amount],
                          !.state.pot = @ + total_to_put_in,
                          !.state.current_bet = raise_to_amount,
                          !.state.last_raise_amount =
                              IF raise_amount > 0 THEN raise_amount ELSE @,
                          !.state.min_raise =
                              IF raise_amount > 0 THEN raise_amount ELSE @]
        reset == _reset_action_needed(paid)
    IN  IF ~is_all_in /\ raise_to_amount < min_raise_to THEN Outcome(TRUE, r)
        ELSE Outcome(FALSE, [reset EXCEPT !.state.players[i].has_acted = TRUE])

is_round_complete(r) ==
    \/ r.state.num_active <= 1
    \/ \A i \in DOMAIN r.state.players :
          CanAct(r.state.players[i]) =>
              /\ r.state.players[i].has_acted
              /\ ~(r.state.players[i].current_bet < r.state.current_bet)

\* advance_action moving the action to the next player of the list, whether
\* that player can act or not.
advance_action_to_next_of_list(r) ==
    [r EXCEPT !.state.action_on = (r.state.action_on + 1) % Len0(r.state.players)]

advance_action(r) ==
    LET n == Len0(r.state.players)
        start == r.state.action_on
        hits == {k \in 1..n : CanAct(r.state.players[(start + k) % n])}
    IN  IF hits = {} THEN r
        ELSE [r EXCEPT !.state.action_on = (start + MinOf(hits)) % n]

apply_action(r, action) ==
    LET valid_actions == get_valid_actions(r)
        applied ==
            CASE action.action_type = "fold" -> Outcome(FALSE, _apply_fold(r))
              [] action.action_type = "check" -> Outcome(FALSE, _apply_check(r))
              [] action.action_type = "call" -> Outcome(FALSE, _apply_call(r))
              [] OTHER -> _apply_raise(r, action)
        acted == [applied.r EXCEPT !.state.players[r.state.action_on].has_acted = TRUE]
    IN  IF ~InSeq(action.action_type, valid_actions) THEN Outcome(TRUE, r)
        ELSE IF applied.raised THEN applied
        ELSE IF is_round_complete(acted) THEN Outcome(FALSE, acted)
        ELSE Outcome(FALSE, advance_action(acted))

(***************************************************************************)
(* side_pots.py: SidePotCalculator                                         *)
(***************************************************************************)
SidePot(amount, eligible_players) ==
    [amount |-> amount, eligible_players |-> eligible_players]

\* The wallets of the players of S, in list order.
RECURSIVE WalletsOf(_, _)
WalletsOf(players, S) ==
    IF S = {} THEN <<>>
    ELSE LET i == MinOf(S) IN <<players[i].wallet>> \o WalletsOf(players, S \ {i})

\* The pot of one all-in level (the body of the loop over all_in_levels).
LevelPot(players, contributing, level, previous_level) ==
    LET full == {i \in contributing : players[i].current_bet >= level}
        part == {i \in contributing :
                    /\ players[i].current_bet < level
                    /\ players[i].current_bet > previous_level}
        pot_amount == Cardinality(full) * (level - previous_level)
                      + SumOver([i \in part |-> players[i].current_bet - previous_level], part)
        eligible == {i \in full \cup part : players[i].is_active}
    IN  SidePot(pot_amount, WalletsOf(players, eligible))

RECURSIVE LevelPots(_, _, _, _)
LevelPots(players, contributing, levels, previous_level) ==
    IF levels = <<>> THEN <<>>
    ELSE LET pot == LevelPot(players, contributing, Head(levels), previous_level)
             rest == LevelPots(players, contributing, Tail(levels), Head(levels))
         IN  IF pot.amount > 0 /\ pot.eligible_players # <<>>
             THEN <<pot>> \o rest ELSE rest

calculate(players) ==
    LET contributing == {i \in DOMAIN players : players[i].current_bet > 0}
        all_in_levels ==
            SortedSeq({players[i].current_bet : i \in {j \in contributing : players[j].is_all_in}})
        max_all_in == all_in_levels[Len(all_in_levels)]
        above == {i \in contributing : players[i].current_bet > max_all_in}
        remaining_pot == SumOver([i \in above |-> players[i].current_bet - max_all_in], above)
        remaining_eligible == WalletsOf(players, {i \in above : players[i].is_active})
    IN  IF contributing = {} THEN <<>>
        ELSE IF all_in_levels = <<>> THEN
            <<SidePot(SumOver([i \in contributing |-> players[i].current_bet], contributing),
                      WalletsOf(players, {i \in contributing : players[i].is_active}))>>
        ELSE LevelPots(players, contributing, all_in_levels, 0)
             \o (IF remaining_pot > 0 /\ remaining_eligible # <<>>
                 THEN <<SidePot(remaining_pot, remaining_eligible)>> ELSE <<>>)

Credit(winnings, wallet, amount) ==
    IF wallet \in DOMAIN winnings THEN [winnings EXCEPT ![wallet] = @ + amount]
    ELSE winnings @@ (wallet :> amount)

RECURSIVE PayWinners(_, _, _, _, _)
\* PayWinners handing the remainder to the last winners instead of the first.
PayWinners_extra_to_last(winnings, winners, i, share, remainder) ==
    IF i > Len(winners) THEN winnings
    ELSE PayWinners(Credit(winnings, winners[i],
                           share + (IF Len(winners) - i < remainder THEN 1 ELSE 0)),
                    winners, i + 1, share, remainder)

PayWinners(winnings, winners, i, share, remainder) ==
    IF i > Len(winners) THEN winnings
    ELSE PayWinners(Credit(winnings, winners[i], share + (IF i - 1 < remainder THEN 1 ELSE 0)),
                    winners, i + 1, share, remainder)

\* One pot of distribute (the body of the loop over pots).
DistributePot(winnings, pot, hand_rankings) ==
    LET ranked == SelectSeq(pot.eligible_players, LAMBDA w : w \in DOMAIN hand_rankings)
        best_rank == MinOf({hand_rankings[ranked[k]] : k \in 1..Len(ranked)})
        winners == SelectSeq(ranked, LAMBDA w : hand_rankings[w] = best_rank)
    IN  IF pot.eligible_players = <<>> \/ ranked = <<>> THEN winnings
        ELSE PayWinners(winnings, winners, 1,
                        pot.amount \div Len(winners), pot.amount % Len(winners))

RECURSIVE DistributeFrom(_, _, _)
DistributeFrom(winnings, pots, hand_rankings) ==
    IF pots = <<>> THEN winnings
    ELSE DistributeFrom(DistributePot(winnings, Head(pots), hand_rankings),
                        Tail(pots), hand_rankings)

distribute(pots, hand_rankings) == DistributeFrom(<<>>, pots, hand_rankings)

(***************************************************************************)
(* hand_controller.py: HandController.  A hand h holds the controller's    *)
(* fields and pc, the position of run: the next step it takes.             *)
(* BettingRound works on the very PlayerInHand objects of h.players (the   *)
(* reordered list holds references), so h.players is rewritten from the    *)
(* round's list after every change of the round.                           *)
(***************************************************************************)
PlayerConfig(wallet, stack, seat_position) ==
    [wallet |-> wallet, stack |-> stack, seat_position |-> seat_position]

NoRound == BettingRound_init(<<>>, 0, 0)

\* sorted(players, key=lambda p: p.seat_position), as a list from index 0.
SortBySeat(configs) ==
    LET n == Len0(configs)
        before(i) == Cardinality({j \in DOMAIN configs :
                        configs[j].seat_position < configs[i].seat_position})
    IN  [k \in 0..(n - 1) |-> configs[CHOOSE i \in DOMAIN configs : before(i) = k]]

HandController_init(configs, button_position, small_blind, big_blind, ante, strength) ==
    LET sorted_players == SortBySeat(configs)
    IN  [players |-> [i \in DOMAIN sorted_players |->
                         PlayerInHand(sorted_players[i].wallet, sorted_players[i].stack)],
         start_stack |-> [i \in DOMAIN sorted_players |-> sorted_players[i].stack],
         strength |-> strength,
         button_position |-> button_position,
         small_blind |-> small_blind,
         big_blind |-> big_blind,
         ante |-> ante,
         phase |-> "WAITING",
         has_round |-> FALSE,
         betting_round |-> NoRound,
         first_to_act |-> 0,
         pot |-> 0,
         current_bet |-> 0,
         dealt |-> 0,
         community_cards |-> 0,
         run_to_showdown |-> FALSE,
         winners |-> <<>>,
         side_pots |-> <<>>,
         eliminations |-> {},
         asked |-> NoWallet,
         answer |-> Action_fold,
         applied |-> "none",
         error |-> "none",
         pc |-> "post_blinds"]

NumPlayers(h) == Len0(h.players)

_get_sb_player_idx(h) ==
    IF NumPlayers(h) = 2 THEN h.button_position
    ELSE (h.button_position + 1) % NumPlayers(h)

_get_bb_player_idx(h) ==
    IF NumPlayers(h) = 2 THEN (h.button_position + 1) % NumPlayers(h)
    ELSE (h.button_position + 2) % NumPlayers(h)

_get_preflop_action_idx(h) ==
    IF NumPlayers(h) = 2 THEN h.button_position
    ELSE (h.button_position + 3) % NumPlayers(h)

_get_postflop_action_idx(h) ==
    LET n == NumPlayers(h)
        hits == {k \in 1..n : CanAct(h.players[(h.button_position + k) % n])}
    IN  IF hits = {} THEN 0 ELSE (h.button_position + MinOf(hits)) % n

\* One posting of _post_blinds: player idx pays min(amount, stack).
Post(h, idx, amount) ==
    LET player == h.players[idx]
        paid == IF amount < player.stack THEN amount ELSE player.stack
    IN  [h EXCEPT !.players[idx] =
                      [player EXCEPT !.stack = @ - paid,
                                     !.current_bet = paid,
                                     !.is_all_in = IF player.stack - paid = 0 THEN TRUE ELSE @],
                  !.pot = @ + paid]

\* _post_blinds taking the ante from the small blind as well.
_post_blinds_ante_from_both(h) ==
    LET sb_idx == _get_sb_player_idx(h)
        bb_idx == _get_bb_player_idx(h)
        posted == Post(Post(h, sb_idx, h.small_blind + h.ante), bb_idx, h.big_blind + h.ante)
    IN  [posted EXCEPT !.phase = "POSTING_BLINDS",
                       !.current_bet = MaxOf({posted.players[sb_idx].current_bet,
                                              posted.players[bb_idx].current_bet})]

_post_blinds(h) ==
    LET sb_idx == _get_sb_player_idx(h)
        bb_idx == _get_bb_player_idx(h)
        posted == Post(Post(h, sb_idx, h.small_blind), bb_idx, h.big_blind + h.ante)
    IN  [posted EXCEPT !.phase = "POSTING_BLINDS",
                       !.current_bet = MaxOf({posted.players[sb_idx].current_bet,
                                              posted.players[bb_idx].current_bet})]

_deal_hole_cards(h) ==
    [h EXCEPT !.phase = "DEALING", !.dealt = @ + 2 * NumPlayers(h)]

_deal_community_cards(h, count) ==
    [h EXCEPT !.dealt = @ + 1 + count, !.community_cards = @ + count]

_count_active_players(h) ==
    Cardinality({i \in DOMAIN h.players : h.players[i].is_active})

_count_players_can_act(h) ==
    Cardinality({i \in DOMAIN h.players : CanAct(h.players[i])})

\* _is_hand_over holding the hand to be over only when nobody is left in it.
_is_hand_over_nobody_left(h) == _count_active_players(h) <= 0

_is_hand_over(h) == _count_active_players(h) <= 1

_all_in_showdown(h) ==
    /\ _count_active_players(h) > 1
    /\ _count_players_can_act(h) <= 1

_reset_bets_for_new_round(h) ==
    [h EXCEPT !.players = [i \in DOMAIN h.players |->
                              [h.players[i] EXCEPT !.current_bet = 0, !.has_acted = FALSE]],
              !.current_bet = 0]

_reorder_players_for_betting(h, first_to_act_idx) ==
    LET n == NumPlayers(h)
    IN  [i \in 0..(n - 1) |-> h.players[(first_to_act_idx + i) % n]]

\* h.players as the round's list leaves them: entry i of the round's list is
\* the object at (first_to_act + i) % n of h.players.
SharePlayers(h, r) ==
    LET n == NumPlayers(h)
    IN  [h EXCEPT !.betting_round = r,
                  !.players = [j \in 0..(n - 1) |->
                                  r.state.players[(j - h.first_to_act + n) % n]]]

\* _run_betting_round goes round its loop again: the round is not complete,
\* the hand is not over (get_state then names a player to act).
LoopsAgain(h) == ~is_round_complete(h.betting_round) /\ ~_is_hand_over(h)

\* _run_betting_round up to the first test of its loop.
BeginBettingRound(h, first_to_act_idx) ==
    LET ordered_players == _reorder_players_for_betting(h, first_to_act_idx)
        fresh == BettingRound_init(ordered_players, h.pot, h.big_blind)
        max_bet == MaxOf({ordered_players[i].current_bet : i \in DOMAIN ordered_players})
        round == IF h.phase = "PREFLOP"
                 THEN [fresh EXCEPT !.state.current_bet = max_bet] ELSE fresh
        h1 == SharePlayers([h EXCEPT !.first_to_act = first_to_act_idx,
                                     !.has_round = TRUE,
                                     !.current_bet = IF h.phase = "PREFLOP" THEN max_bet ELSE @],
                           round)
    IN  [h1 EXCEPT !.pc = IF LoopsAgain(h1) THEN "await" ELSE "end_round"]

\* get_state: what the decision callback is shown.
get_state(h) ==
    LET asking == h.has_round /\ ~is_round_complete(h.betting_round)
        st == h.betting_round.state
    IN  [phase |-> h.phase,
         pot |-> h.pot,
         community_cards |-> h.community_cards,
         current_bet |-> h.current_bet,
         action_on |-> IF asking THEN st.players[st.action_on].wallet ELSE NoWallet,
         valid_actions |-> IF asking THEN get_valid_actions(h.betting_round) ELSE <<>>,
         min_raise_to |-> IF asking THEN st.current_bet + st.min_raise
                          ELSE h.current_bet + h.big_blind]

\* One turn of the loop of _run_betting_round, from the callback's answer on:
\* the action is applied, an InvalidActionError is answered with a fold, and
\* an InvalidActionError of that fold leaves run.
Decide(h, action) ==
    LET first == apply_action(h.betting_round, action)
        second == apply_action(first.r, Action_fold)
        asked == get_state(h).action_on
        told == [h EXCEPT !.asked = asked, !.answer = action]
        after(r, type) ==
            LET h1 == SharePlayers([told EXCEPT !.applied = type,
                                                !.pot = r.state.pot,
                                                !.current_bet = r.state.current_bet], r)
            IN  [h1 EXCEPT !.pc = IF LoopsAgain(h1) THEN "await" ELSE "end_round"]
    IN  IF ~first.raised THEN after(first.r, action.action_type)
        ELSE IF ~second.raised THEN after(second.r, "fold")
        ELSE [told EXCEPT !.applied = "none",
                          !.error = "InvalidActionError",
                          !.pc = "failed"]

\* The callback itself raises: the exception leaves run.
CallbackFails(h) ==
    [h EXCEPT !.asked = get_state(h).action_on,
              !.applied = "none",
              !.error = "CallbackError",
              !.pc = "failed"]

NextStreet(phase) ==
    CASE phase = "PREFLOP" -> "flop"
      [] phase = "FLOP" -> "turn"
      [] phase = "TURN" -> "river"
      [] OTHER -> "showdown"

\* run after the betting of a street: the all-in showdown test of lines 509,
\* 521-522 and 534-535 (the river has none).
StreetEnd(h) ==
    LET now == _all_in_showdown(h) /\ _count_active_players(h) > 1
    IN  [h EXCEPT !.run_to_showdown =
                      CASE h.phase = "PREFLOP" -> now
                        [] h.phase \in {"FLOP", "TURN"} -> IF ~@ THEN now ELSE @
                        [] OTHER -> @,
                  !.pc = NextStreet(h.phase)]

\* The end of _run_betting_round (the sync back, betting_round = None).
EndBettingRound(h) ==
    StreetEnd([h EXCEPT !.has_round = FALSE, !.betting_round = NoRound])

RunPostBlinds(h) == [_post_blinds(h) EXCEPT !.pc = "deal"]

RunDeal(h) == [_deal_hole_cards(h) EXCEPT !.pc = "preflop"]

RunPreflop(h) ==
    LET h1 == [h EXCEPT !.phase = "PREFLOP"]
    IN  IF ~_is_hand_over(h1) /\ _count_players_can_act(h1) > 1
        THEN BeginBettingRound(h1, _get_preflop_action_idx(h1))
        ELSE StreetEnd(h1)

StreetCards(street) == IF street = "flop" THEN 3 ELSE 1

StreetPhase(street) ==
    CASE street = "flop" -> "FLOP" [] street = "turn" -> "TURN" [] OTHER -> "RIVER"

\* The flop, turn and river blocks of run.
RunStreet(h, street) ==
    LET h1 == [_deal_community_cards(_reset_bets_for_new_round(h), StreetCards(street))
                  EXCEPT !.phase = StreetPhase(street)]
    IN  IF _is_hand_over(h) THEN [h EXCEPT !.pc = NextStreet(StreetPhase(street))]
        ELSE IF ~h1.run_to_showdown /\ _count_players_can_act(h1) > 1
        THEN BeginBettingRound(h1, _get_postflop_action_idx(h1))
        ELSE StreetEnd(h1)

\* hand_rankings of _determine_winners: rank 0 is the best hand, equal hands
\* share a rank, the next different hand has the next rank.
HandRankings(h) ==
    LET active == {i \in DOMAIN h.players : h.players[i].is_active}
        wallet_idx(w) == CHOOSE i \in active : h.players[i].wallet = w
    IN  [w \in {h.players[i].wallet : i \in active} |->
            Cardinality({h.strength[j] : j \in {k \in active :
                            h.strength[k] > h.strength[wallet_idx(w)]}})]

\* _determine_winners paying a pot nobody contests to the first player of
\* the list, folded or not.
_determine_winners_first_of_list(h) ==
    LET active == {i \in DOMAIN h.players : h.players[i].is_active}
        calculated == calculate(h.players)
        side_pots == IF calculated = <<>> /\ h.pot > 0 /\ Cardinality(active) > 1
                     THEN <<SidePot(h.pot, WalletsOf(h.players, active))>>
                     ELSE calculated
    IN  IF Cardinality(active) = 1
        THEN [winners |-> (h.players[0].wallet :> h.pot),
              side_pots |-> <<>>]
        ELSE [winners |-> distribute(side_pots, HandRankings(h)),
              side_pots |-> side_pots]

_determine_winners(h) ==
    LET active == {i \in DOMAIN h.players : h.players[i].is_active}
        calculated == calculate(h.players)
        side_pots == IF calculated = <<>> /\ h.pot > 0 /\ Cardinality(active) > 1
                     THEN <<SidePot(h.pot, WalletsOf(h.players, active))>>
                     ELSE calculated
    IN  IF Cardinality(active) = 1
        THEN [winners |-> (h.players[CHOOSE i \in active : TRUE].wallet :> h.pot),
              side_pots |-> <<>>]
        ELSE [winners |-> distribute(side_pots, HandRankings(h)),
              side_pots |-> side_pots]

\* run, lines 547-554: the showdown and the crediting of the winnings.
RunShowdown(h) ==
    LET won == _determine_winners(h)
    IN  [h EXCEPT !.phase = "SHOWDOWN",
                  !.winners = won.winners,
                  !.side_pots = won.side_pots,
                  !.players = [i \in DOMAIN h.players |->
                                  IF h.players[i].wallet \in DOMAIN won.winners
                                  THEN [h.players[i] EXCEPT
                                           !.stack = @ + won.winners[h.players[i].wallet]]
                                  ELSE h.players[i]],
                  !.pc = "complete"]

\* run, lines 556-571: the eliminations and the HandResult.
RunComplete(h) ==
    [h EXCEPT !.eliminations = {h.players[i].wallet :
                                   i \in {j \in DOMAIN h.players : h.players[j].stack = 0}},
              !.phase = "COMPLETE",
              !.pc = "done"]

\* The step of run that needs no answer of the callback.
RunStep(h) ==
    CASE h.pc = "post_blinds" -> RunPostBlinds(h)
      [] h.pc = "deal" -> RunDeal(h)
      [] h.pc = "preflop" -> RunPreflop(h)
      [] h.pc = "end_round" -> EndBettingRound(h)
      [] h.pc \in {"flop", "turn", "river"} -> RunStreet(h, h.pc)
      [] h.pc = "showdown" -> RunShowdown(h)
      [] h.pc = "complete" -> RunComplete(h)
      [] OTHER -> h

InternalPcs == {"post_blinds", "deal", "preflop", "end_round", "flop", "turn",
                "river", "showdown", "complete"}

\* The answers the decision callback is given to choose from.
Answers ==
    {Action_fold, Action_check, Action_call, Action("raise", FALSE, 0)}
    \cup {Action_raise_to(a) : a \in 0..MaxRaiseTo}

(***************************************************************************)
(* table.py: Seat and Table.  A table tb is [table_id, seats,              *)
(* button_position]; seats is the list of its MAX_SEATS seats.             *)
(***************************************************************************)
\* The seats of a table.  The source has 9 (Table.MAX_SEATS, and the 9 that
\* SeatingManager and TableBalancer write out); the tables here are smaller
\* and every 9 of the source reads MAX_SEATS.
MAX_SEATS == 3

NoSeat == -1

Seat(position) ==
    [position |-> position, player_wallet |-> NoWallet, stack |-> 0, status |-> "empty"]

Table_init(table_id) ==
    [table_id |-> table_id,
     seats |-> [i \in 0..(MAX_SEATS - 1) |-> Seat(i)],
     button_position |-> 0]

seat_player(tb, wallet, position, stack) ==
    IF position < 0 \/ position >= MAX_SEATS THEN tb
    ELSE IF tb.seats[position].status # "empty" THEN tb
    ELSE [tb EXCEPT !.seats[position] =
                        [@ EXCEPT !.player_wallet = wallet,
                                  !.stack = stack,
                                  !.status = "active"]]

\* The position of the first seat that holds the wallet, NoSeat for None.
get_player_seat(tb, wallet) ==
    LET held == {i \in DOMAIN tb.seats : tb.seats[i].player_wallet = wallet}
    IN  IF held = {} THEN NoSeat ELSE MinOf(held)

remove_player(tb, wallet) ==
    LET pos == get_player_seat(tb, wallet)
    IN  IF pos = NoSeat THEN tb
        ELSE [tb EXCEPT !.seats[pos] = Seat(pos)]

\* The positions of the seats with status active, in list order.
get_active_players(tb) ==
    SortedSeq({i \in DOMAIN tb.seats : tb.seats[i].status = "active"})

player_count(tb) == Len(get_active_players(tb))

\* The first active seat after position from, MAX_SEATS steps round the table.
NextActiveAfter(tb, from) ==
    LET hits == {k \in 1..MAX_SEATS : tb.seats[(from + k) % MAX_SEATS].status = "active"}
    IN  IF hits = {} THEN from ELSE (from + MinOf(hits)) % MAX_SEATS

advance_button(tb) ==
    [tb EXCEPT !.button_position = NextActiveAfter(tb, tb.button_position)]

\* get_next_big_blind_player counting one active seat after the next button.
get_next_big_blind_player_first_after_button(tb) ==
    LET active_players == get_active_players(tb)
        next_button == NextActiveAfter(tb, tb.button_position)
        others == SelectSeq(active_players, LAMBDA pos : pos # next_button)
        first == NextActiveAfter(tb, next_button)
    IN  IF Len(active_players) < 2 THEN NoWallet
        ELSE IF Len(active_players) = 2
        THEN (IF others = <<>> THEN NoWallet ELSE tb.seats[others[1]].player_wallet)
        ELSE tb.seats[first].player_wallet

get_next_big_blind_player(tb) ==
    LET active_players == get_active_players(tb)
        next_button == NextActiveAfter(tb, tb.button_position)
        others == SelectSeq(active_players, LAMBDA pos : pos # next_button)
        second == NextActiveAfter(tb, NextActiveAfter(tb, next_button))
    IN  IF Len(active_players) < 2 THEN NoWallet
        ELSE IF Len(active_players) = 2
        THEN (IF others = <<>> THEN NoWallet ELSE tb.seats[others[1]].player_wallet)
        ELSE tb.seats[second].player_wallet

get_available_seats(tb) ==
    SortedSeq({i \in DOMAIN tb.seats : tb.seats[i].status = "empty"})

\* eliminate_player emptying the stack and leaving the status of the seat.
eliminate_player_leaves_status(tb, wallet) ==
    LET pos == get_player_seat(tb, wallet)
    IN  IF pos = NoSeat THEN tb
        ELSE [tb EXCEPT !.seats[pos] = [@ EXCEPT !.stack = 0]]

eliminate_player(tb, wallet) ==
    LET pos == get_player_seat(tb, wallet)
    IN  IF pos = NoSeat THEN tb
        ELSE [tb EXCEPT !.seats[pos] = [@ EXCEPT !.status = "eliminated", !.stack = 0]]

(***************************************************************************)
(* balancing.py: TableBalancer.  `all` is the manager's list of tables; a  *)
(* list of tables handed to the balancer is the sequence `ids` of their    *)
(* places in `all` (the lists of the source hold references to the tables).*)
(***************************************************************************)
TableMove(player_wallet, from_table_id, from_seat, to_table_id, to_seat) ==
    [player_wallet |-> player_wallet, from_table_id |-> from_table_id,
     from_seat |-> from_seat, to_table_id |-> to_table_id, to_seat |-> to_seat]

Counts(all, ids) == {player_count(all[ids[k]]) : k \in 1..Len(ids)}

\* max(tables, key=player_count) and min(...): the first table of the list
\* with the largest (smallest) count.
Fullest(all, ids) ==
    ids[MinOf({k \in 1..Len(ids) : player_count(all[ids[k]]) = MaxOf(Counts(all, ids))})]

Emptiest(all, ids) ==
    ids[MinOf({k \in 1..Len(ids) : player_count(all[ids[k]]) = MinOf(Counts(all, ids))})]

check_balance_needed(all, ids) ==
    IF Len(ids) < 2 THEN FALSE
    ELSE MaxOf(Counts(all, ids)) - MinOf(Counts(all, ids)) > 1

_get_best_available_seat(tb) ==
    LET available == get_available_seats(tb)
        positions_to_avoid == {(tb.button_position + i) % MAX_SEATS : i \in 1..2}
        preferred == SelectSeq(available, LAMBDA pos : pos \notin positions_to_avoid)
    IN  IF available = <<>> THEN NoSeat
        ELSE IF preferred # <<>> THEN preferred[1]
        ELSE available[1]

NoMove == TableMove(NoWallet, 0, NoSeat, 0, NoSeat)

get_move(all, ids) ==
    LET source == Fullest(all, ids)
        dest == Emptiest(all, ids)
        next_bb == get_next_big_blind_player(all[source])
        active_players == get_active_players(all[source])
        player_wallet ==
            IF next_bb # NoWallet THEN next_bb
            ELSE all[source].seats[active_players[1]].player_wallet
        from_seat == get_player_seat(all[source], player_wallet)
        to_seat == _get_best_available_seat(all[dest])
    IN  IF ~check_balance_needed(all, ids) THEN NoMove
        ELSE IF next_bb = NoWallet /\ active_players = <<>> THEN NoMove
        ELSE IF from_seat = NoSeat \/ to_seat = NoSeat THEN NoMove
        ELSE TableMove(player_wallet, source, from_seat, dest, to_seat)

apply_move(all, move) ==
    LET stack == all[move.from_table_id].seats[
                     get_player_seat(all[move.from_table_id], move.player_wallet)].stack
        removed == [all EXCEPT ![move.from_table_id] = remove_player(@, move.player_wallet)]
    IN  [removed EXCEPT ![move.to_table_id] =
                            seat_player(@, move.player_wallet, move.to_seat, stack)]

_calculate_optimal_tables(total_players) ==
    IF total_players <= 0 THEN 0
    ELSE (total_players + MAX_SEATS - 1) \div MAX_SEATS

NoTable == 0

should_break_table(all, ids) ==
    LET total_players == SumOver([k \in 1..Len(ids) |-> player_count(all[ids[k]])], 1..Len(ids))
    IN  IF Len(ids) <= 1 THEN NoTable
        ELSE IF _calculate_optimal_tables(total_players) < Len(ids) THEN Emptiest(all, ids)
        ELSE NoTable

\* The moves of break_table for the players (seat positions) still to place:
\* every move is planned against the tables as they are when break_table is
\* called, none of the moves being applied before all are planned.
RECURSIVE PlanMoves(_, _, _, _)
PlanMoves(all, remaining_tables, table_to_break, seats_to_move) ==
    IF seats_to_move = <<>> THEN <<>>
    ELSE LET best_table == Emptiest(all, remaining_tables)
             to_seat == _get_best_available_seat(all[best_table])
             from_seat == Head(seats_to_move)
             rest == PlanMoves(all, remaining_tables, table_to_break, Tail(seats_to_move))
         IN  IF to_seat = NoSeat THEN rest
             ELSE <<TableMove(all[table_to_break].seats[from_seat].player_wallet,
                              table_to_break, from_seat, best_table, to_seat)>> \o rest

break_table(all, ids, table_to_break) ==
    LET remaining_tables == SelectSeq(ids, LAMBDA id : id # table_to_break)
        players_to_move ==
            SelectSeq(get_active_players(all[table_to_break]),
                      LAMBDA pos : all[table_to_break].seats[pos].player_wallet # NoWallet)
    IN  IF remaining_tables = <<>> THEN <<>>
        ELSE PlanMoves(all, remaining_tables, table_to_break, players_to_move)

(***************************************************************************)
(* seating.py: SeatingManager.create_seating.  The seeded shuffles are     *)
(* inputs: shuffled_players is the shuffled list of wallets, seat_orders   *)
(* the shuffled seat positions of each table.                              *)
(***************************************************************************)
_calculate_table_count(count) ==
    IF count <= 0 THEN 0
    ELSE IF count <= MAX_SEATS THEN 1
    ELSE (count + MAX_SEATS - 1) \div MAX_SEATS

SeatAssignment(wallet, table_id, seat_position, starting_stack) ==
    [wallet |-> wallet, table_id |-> table_id, seat_position |-> seat_position,
     starting_stack |-> starting_stack]

\* The players dealt round-robin to the table of index table_idx (from 0).
PlayersAtTable(shuffled_players, table_count, table_idx) ==
    LET at == {i \in 1..Len(shuffled_players) : (i - 1) % table_count = table_idx}
    IN  [k \in 1..Cardinality(at) |-> shuffled_players[SortedSeq(at)[k]]]

\* SeatAll with the players seated at the positions 0, 1, ... in list order,
\* not at the positions of seat_order.
RECURSIVE SeatAll_in_list_order(_, _, _, _, _)
SeatAll_in_list_order(tb, players_at_table, seat_order, starting_stack, k) ==
    IF k > Len(players_at_table) THEN tb
    ELSE SeatAll_in_list_order(seat_player(tb, players_at_table[k], k - 1, starting_stack),
                               players_at_table, seat_order, starting_stack, k + 1)

RECURSIVE SeatAll(_, _, _, _, _)
SeatAll(tb, players_at_table, seat_order, starting_stack, k) ==
    IF k > Len(players_at_table) THEN tb
    ELSE SeatAll(seat_player(tb, players_at_table[k], seat_order[k], starting_stack),
                 players_at_table, seat_order, starting_stack, k + 1)

RECURSIVE Assignments(_, _, _, _, _)
Assignments(shuffled_players, seat_orders, starting_stack, table_count, i) ==
    IF i > table_count THEN <<>>
    ELSE LET at == PlayersAtTable(shuffled_players, table_count, i - 1)
         IN  [k \in 1..Len(at) |->
                 SeatAssignment(at[k], i, seat_orders[i][k], starting_stack)]
             \o Assignments(shuffled_players, seat_orders, starting_stack, table_count, i + 1)

create_seating(shuffled_players, seat_orders, starting_stack) ==
    LET table_count == _calculate_table_count(Len(shuffled_players))
    IN  [tables |-> [i \in 1..table_count |->
                        SeatAll(Table_init(i),
                                PlayersAtTable(shuffled_players, table_count, i - 1),
                                seat_orders[i], starting_stack, 1)],
         assignments |-> Assignments(shuffled_players, seat_orders, starting_stack,
                                     table_count, 1)]

(***************************************************************************)
(* blinds.py: BlindStructure, as the fields current_level_index and        *)
(* level_started (level_start_time is not None) of the manager.            *)
(***************************************************************************)
BlindLevel(level, small_blind, big_blind, ante) ==
    [level |-> level, small_blind |-> small_blind, big_blind |-> big_blind, ante |-> ante]

\* The blind structure the hands are played at: a level without and a level
\* with an ante.
Levels == <<BlindLevel(1, 1, 2, 0), BlindLevel(2, 1, 2, 1)>>

is_final_level(m) == m.current_level_index >= Len(Levels) - 1

current_level(m) == Levels[m.current_level_index + 1]

\* check_level_up without the test of level_start_time.
check_level_up_timer_not_read(m, elapsed) ==
    IF is_final_level(m) \/ ~elapsed THEN m
    ELSE [m EXCEPT !.current_level_index = @ + 1]

\* check_level_up; elapsed tells whether the duration of the level has passed.
check_level_up(m, elapsed) ==
    IF ~m.level_started \/ is_final_level(m) \/ ~elapsed THEN m
    ELSE [m EXCEPT !.current_level_index = @ + 1]

(***************************************************************************)
(* payouts.py: PayoutCalculator.calculate                                  *)
(***************************************************************************)
\* The payout structure: the points of ranks 1, 2 and 3.
PayoutStructure == <<5, 3, 2>>

PointsAward(wallet, rank, points) == [wallet |-> wallet, rank |-> rank, points |-> points]

\* The awards of the paying ranks from rank on, each rank's in list order
\* (the sort by rank is stable).
RECURSIVE AwardsFrom(_, _)
AwardsFrom(final_rankings, rank) ==
    IF rank > Len(PayoutStructure) THEN <<>>
    ELSE LET ranked == SelectSeq(final_rankings, LAMBDA e : e.rank = rank)
         IN  [k \in 1..Len(ranked) |->
                 PointsAward(ranked[k].wallet, rank, PayoutStructure[rank])]
             \o AwardsFrom(final_rankings, rank + 1)

PayoutCalculator_calculate(final_rankings) == AwardsFrom(final_rankings, 1)

(***************************************************************************)
(* manager.py: TournamentManager.  m holds the manager's fields, the state *)
(* of its BlindStructure, what the last call did (last_call), and, while   *)
(* run is executing, its position pc and the results of the round's hand   *)
(* tasks.                                                                  *)
(***************************************************************************)
\* The TournamentConfig: starting_stack, max_players and min_players.
StartingStack == 2
MaxPlayers == 6
MinPlayers == 2

\* The hands run plays: a round begins only while hand_number stays within
\* MaxHandNumber.
MaxHandNumber == 3

Call(op, result) == [op |-> op, result |-> result]

TournamentManager_init ==
    [phase |-> "CREATED",
     registrations |-> {},
     eliminations |-> <<>>,
     tables |-> <<>>,
     seat_assignments |-> <<>>,
     hand_number |-> 0,
     hands_history |-> 0,
     active_hands |-> <<>>,
     results |-> <<>>,
     current_level_index |-> 0,
     level_started |-> FALSE,
     awards |-> <<>>,
     last_call |-> Call("init", "none"),
     pc |-> "idle"]

\* open_registration without the test of the phase.
open_registration_any_phase(m) ==
    [m EXCEPT !.phase = "REGISTRATION", !.last_call = Call("open_registration", "none")]

open_registration(m) ==
    IF m.phase # "CREATED" THEN [m EXCEPT !.last_call = Call("open_registration", "ValueError")]
    ELSE [m EXCEPT !.phase = "REGISTRATION", !.last_call = Call("open_registration", "none")]

close_registration(m) ==
    IF m.phase # "REGISTRATION"
    THEN [m EXCEPT !.last_call = Call("close_registration", "ValueError")]
    ELSE [m EXCEPT !.phase = "STARTING", !.last_call = Call("close_registration", "none")]

\* register_player without the test of max_players.
register_player_no_limit(m, wallet) ==
    IF \/ m.phase # "REGISTRATION"
       \/ wallet \in m.registrations
    THEN [m EXCEPT !.last_call = Call("register_player", "False")]
    ELSE [m EXCEPT !.registrations = @ \cup {wallet},
                   !.last_call = Call("register_player", "True")]

register_player(m, wallet) ==
    IF \/ m.phase # "REGISTRATION"
       \/ wallet \in m.registrations
       \/ Cardinality(m.registrations) >= MaxPlayers
    THEN [m EXCEPT !.last_call = Call("register_player", "False")]
    ELSE [m EXCEPT !.registrations = @ \cup {wallet},
                   !.last_call = Call("register_player", "True")]

unregister_player(m, wallet) ==
    IF m.phase # "REGISTRATION" \/ wallet \notin m.registrations
    THEN [m EXCEPT !.last_call = Call("unregister_player", "False")]
    ELSE [m EXCEPT !.registrations = @ \ {wallet},
                   !.last_call = Call("unregister_player", "True")]

TableIds(m) == DOMAIN m.tables

TM_count_active_players(m) ==
    SumOver([i \in TableIds(m) |-> player_count(m.tables[i])], TableIds(m))

_update_phase(m) ==
    LET active_players == TM_count_active_players(m)
        active_tables == Cardinality({i \in TableIds(m) : player_count(m.tables[i]) > 0})
    IN  [m EXCEPT !.phase = IF active_players <= 1 THEN "COMPLETED"
                            ELSE IF active_players = 2 THEN "HEADS_UP"
                            ELSE IF active_tables = 1 THEN "FINAL_TABLE"
                            ELSE "IN_PROGRESS"]

_get_active_tables(m) ==
    SortedSeq({i \in TableIds(m) : player_count(m.tables[i]) >= 2})

\* start seating the players before it counts them.
start_seats_before_count(m, shuffled_players, seat_orders) ==
    LET closed == IF m.phase = "REGISTRATION" THEN [m EXCEPT !.phase = "STARTING"] ELSE m
        seating == create_seating(shuffled_players, seat_orders, StartingStack)
        seated == [closed EXCEPT !.tables = seating.tables,
                                 !.seat_assignments = seating.assignments]
    IN  IF closed.phase # "STARTING" THEN [closed EXCEPT !.last_call = Call("start", "ValueError")]
        ELSE IF Cardinality(closed.registrations) < MinPlayers
        THEN [seated EXCEPT !.phase = "CANCELLED", !.last_call = Call("start", "ValueError")]
        ELSE _update_phase([seated EXCEPT !.level_started = TRUE,
                                          !.last_call = Call("start", "none")])

\* start; shuffled_players and seat_orders are what the seating seed yields.
start(m, shuffled_players, seat_orders) ==
    LET closed == IF m.phase = "REGISTRATION" THEN [m EXCEPT !.phase = "STARTING"] ELSE m
        seating == create_seating(shuffled_players, seat_orders, StartingStack)
    IN  IF closed.phase # "STARTING" THEN [closed EXCEPT !.last_call = Call("start", "ValueError")]
        ELSE IF Cardinality(closed.registrations) < MinPlayers
        THEN [closed EXCEPT !.phase = "CANCELLED", !.last_call = Call("start", "ValueError")]
        ELSE _update_phase([closed EXCEPT !.tables = seating.tables,
                                          !.seat_assignments = seating.assignments,
                                          !.level_started = TRUE,
                                          !.last_call = Call("start", "none")])

\* run up to its loop: start is awaited in the phases REGISTRATION and
\* STARTING, and its ValueError leaves run.
RunEnter(m, shuffled_players, seat_orders) ==
    LET started == IF m.phase \in {"REGISTRATION", "STARTING"}
                   THEN start(m, shuffled_players, seat_orders)
                   ELSE [m EXCEPT !.last_call = Call("start", "none")]
    IN  IF started.last_call.result = "ValueError"
        THEN [started EXCEPT !.last_call = Call("run", "ValueError")]
        ELSE [started EXCEPT !.last_call = Call("run", "running"), !.pc = "loop"]

\* The steps of HandController.run up to the next answer of the callback, the
\* deal that decides the showdown, or the end of run.
RECURSIVE RunToStop(_)
RunToStop(h) ==
    IF h.pc \in InternalPcs \ {"showdown"} THEN RunToStop(RunStep(h)) ELSE h

\* The locals of run that no later step reads.
Forget(h) == [h EXCEPT !.answer = Action_fold, !.applied = "none"]

\* What the task of a table has yielded: nothing yet, the HandResult of run
\* (lines 564-571 of hand_controller.py), or the exception that left it.
TaskResult(kind, winners, pot_total, eliminations) ==
    [kind |-> kind, winners |-> winners, pot_total |-> pot_total,
     eliminations |-> eliminations]

Pending == TaskResult("pending", <<>>, 0, {})

Raised == TaskResult("Exception", <<>>, 0, {})

HandResult(h) == TaskResult("HandResult", h.winners, h.pot, h.eliminations)

\* Deck.generate_seed(blockhash, tournament_id, hand_number), the SHA256 of
\* the three joined; the digest is held as what was hashed, the blockhash and
\* the tournament id being those of the one tournament.
generate_seed(hand_number) == <<"blockhash", "tournament_id", hand_number>>

_generate_hand_seed(hand_number) == generate_seed(hand_number)

\* f"{tournament_id}_hand_{hand_number}"
HandId(hand_number) == <<"tournament_id", "hand", hand_number>>

\* StartHand with hand_number left as it was.
StartHand_same_hand_number(m, tid) ==
    LET active_seats == get_active_players(m.tables[tid])
        table == advance_button(m.tables[tid])
        players == [k \in 0..(Len(active_seats) - 1) |->
                       PlayerConfig(table.seats[active_seats[k + 1]].player_wallet,
                                    table.seats[active_seats[k + 1]].stack,
                                    active_seats[k + 1])]
        at_button == {i \in DOMAIN players : players[i].seat_position = table.button_position}
        button_idx == IF at_button = {} THEN 0 ELSE MinOf(at_button)
        blind_level == current_level(m)
        controller == HandController_init(players, button_idx, blind_level.small_blind,
                                          blind_level.big_blind, blind_level.ante,
                                          [i \in DOMAIN players |-> 1])
    IN  [m EXCEPT !.tables[tid] = table,
                  !.active_hands = (tid :> ([hand_id |-> HandId(m.hand_number),
                                             deck_seed |-> _generate_hand_seed(m.hand_number)]
                                            @@ Forget(RunToStop(controller)))) @@ @,
                  !.results = (tid :> Pending) @@ @]

\* _run_hand_on_table up to controller.run, lines 353-395; the controller
\* holds its hand_id and the seed of its deck beside the fields of the hand.
StartHand(m, tid) ==
    LET active_seats == get_active_players(m.tables[tid])
        table == advance_button(m.tables[tid])
        players == [k \in 0..(Len(active_seats) - 1) |->
                       PlayerConfig(table.seats[active_seats[k + 1]].player_wallet,
                                    table.seats[active_seats[k + 1]].stack,
                                    active_seats[k + 1])]
        at_button == {i \in DOMAIN players : players[i].seat_position = table.button_position}
        button_idx == IF at_button = {} THEN 0 ELSE MinOf(at_button)
        blind_level == current_level(m)
        controller == HandController_init(players, button_idx, blind_level.small_blind,
                                          blind_level.big_blind, blind_level.ante,
                                          [i \in DOMAIN players |-> 1])
    IN  [m EXCEPT !.hand_number = @ + 1,
                  !.tables[tid] = table,
                  !.active_hands = (tid :> ([hand_id |-> HandId(m.hand_number + 1),
                                             deck_seed |-> _generate_hand_seed(m.hand_number + 1)]
                                            @@ Forget(RunToStop(controller)))) @@ @,
                  !.results = (tid :> Pending) @@ @]

RECURSIVE StartHands(_, _)
StartHands(m, active_tables) ==
    IF active_tables = <<>> THEN m
    ELSE StartHands(StartHand(m, Head(active_tables)), Tail(active_tables))

\* _run_hand_on_table after controller.run returned, lines 407-417: the stacks
\* are written to the seats, the players without chips are eliminated.
RECURSIVE WriteBack(_, _, _)
WriteBack(tb, players, i) ==
    IF i >= Len0(players) THEN tb
    ELSE LET pos == get_player_seat(tb, players[i].wallet)
             written == [tb EXCEPT !.seats[pos].stack = players[i].stack]
         IN  WriteBack(IF pos = NoSeat THEN tb
                       ELSE IF players[i].stack = 0
                       THEN eliminate_player(written, players[i].wallet)
                       ELSE written,
                       players, i + 1)

Without(f, key) == [k \in (DOMAIN f) \ {key} |-> f[k]]

\* AfterHandStep with the write-back moved into the finally block: the stacks
\* of a hand that failed are written to the seats as well.
AfterHandStep_writes_back_in_finally(m, tid, h) ==
    IF h.pc = "done"
    THEN [m EXCEPT !.tables[tid] = WriteBack(@, h.players, 0),
                   !.active_hands = Without(@, tid),
                   !.results[tid] = HandResult(h)]
    ELSE IF h.pc = "failed"
    THEN [m EXCEPT !.tables[tid] = WriteBack(@, h.players, 0),
                   !.active_hands = Without(@, tid),
                   !.results[tid] = Raised]
    ELSE [m EXCEPT !.active_hands[tid] = Forget(h)]

\* AfterHandStep with the stacks written to the seats of whichever tables
\* hold the seat positions of the hand's players.
AfterHandStep_writes_every_table(m, tid, h) ==
    IF h.pc = "done"
    THEN [m EXCEPT !.tables = [i \in DOMAIN @ |->
                                  [@[i] EXCEPT !.seats = WriteBack(m.tables[tid], h.players, 0).seats]],
                   !.active_hands = Without(@, tid),
                   !.results[tid] = HandResult(h)]
    ELSE IF h.pc = "failed"
    THEN [m EXCEPT !.active_hands = Without(@, tid),
                   !.results[tid] = Raised]
    ELSE [m EXCEPT !.active_hands[tid] = Forget(h)]

\* What the step of the hand of table tid that led to h leaves in the manager:
\* the hand still running, its result written back, or its exception.
AfterHandStep(m, tid, h) ==
    IF h.pc = "done"
    THEN [m EXCEPT !.tables[tid] = WriteBack(@, h.players, 0),
                   !.active_hands = Without(@, tid),
                   !.results[tid] = HandResult(h)]
    ELSE IF h.pc = "failed"
    THEN [m EXCEPT !.active_hands = Without(@, tid),
                   !.results[tid] = Raised]
    ELSE [m EXCEPT !.active_hands[tid] = Forget(h)]

\* LoopHead with check_level_up called after the hands of the round are
\* created.
LoopHead_levels_after_hands(m, elapsed) ==
    LET active_tables == _get_active_tables(m)
    IN  IF m.phase \in {"COMPLETED", "CANCELLED"} THEN [m EXCEPT !.pc = "payouts"]
        ELSE IF active_tables = <<>>
        THEN [check_level_up(m, elapsed) EXCEPT !.phase = "COMPLETED", !.pc = "payouts"]
        ELSE [check_level_up(StartHands(m, active_tables), elapsed) EXCEPT !.pc = "gather"]

\* The head of the loop of run, lines 301-319, up to the gather of the hands.
LoopHead(m, elapsed) ==
    LET levelled == check_level_up(m, elapsed)
        active_tables == _get_active_tables(levelled)
    IN  IF m.phase \in {"COMPLETED", "CANCELLED"} THEN [m EXCEPT !.pc = "payouts"]
        ELSE IF active_tables = <<>>
        THEN [levelled EXCEPT !.phase = "COMPLETED", !.pc = "payouts"]
        ELSE [StartHands(levelled, active_tables) EXCEPT !.pc = "gather"]

EliminationRecord(wallet, final_rank, hand_number, prize_won) ==
    [wallet |-> wallet, final_rank |-> final_rank, hand_number |-> hand_number,
     prize_won |-> prize_won]

\* The seats of all tables in the order _process_eliminations visits them.
SeatsInOrder(m) ==
    [k \in 1..(Len(m.tables) * MAX_SEATS) |->
        m.tables[((k - 1) \div MAX_SEATS) + 1].seats[(k - 1) % MAX_SEATS]]

RECURSIVE RecordEliminations(_, _, _, _, _)
RecordEliminations(eliminations, seats, active_count, hand_number, k) ==
    IF k > Len(seats) THEN eliminations
    ELSE LET seat == seats[k]
             final_rank == active_count + 1
             prize == IF final_rank \in DOMAIN PayoutStructure
                      THEN PayoutStructure[final_rank] ELSE 0
             recorded == \E e \in 1..Len(eliminations) :
                            eliminations[e].wallet = seat.player_wallet
         IN  RecordEliminations(
                 IF seat.status = "eliminated" /\ seat.player_wallet # NoWallet /\ ~recorded
                 THEN Append(eliminations,
                             EliminationRecord(seat.player_wallet, final_rank, hand_number, prize))
                 ELSE eliminations,
                 seats, active_count, hand_number, k + 1)

_process_eliminations(m) ==
    [m EXCEPT !.eliminations =
        RecordEliminations(@, SeatsInOrder(m), TM_count_active_players(m), m.hand_number, 1)]

\* run, lines 322-330: the results of the gather and the eliminations.
Gather(m) ==
    LET results == {tid \in DOMAIN m.results : m.results[tid].kind = "HandResult"}
    IN  [_process_eliminations([m EXCEPT !.hands_history = @ + Cardinality(results)])
            EXCEPT !.results = <<>>, !.pc = "balance"]

RECURSIVE ApplyMoves(_, _)
ApplyMoves(all, moves) ==
    IF moves = <<>> THEN all ELSE ApplyMoves(apply_move(all, Head(moves)), Tail(moves))

\* _balance_tables, lines 447-459: the break of a table.
BreakTables(all) ==
    LET active_tables == SortedSeq({i \in DOMAIN all : player_count(all[i]) > 0})
        table_to_break == should_break_table(all, active_tables)
    IN  IF Len(active_tables) <= 1 \/ table_to_break = NoTable
        THEN [tables |-> all, active_tables |-> active_tables, broken |-> NoTable]
        ELSE [tables |-> ApplyMoves(all, break_table(all, active_tables, table_to_break)),
              active_tables |-> SelectSeq(active_tables, LAMBDA id : id # table_to_break),
              broken |-> table_to_break]

\* _balance_tables, lines 461-466: the moves between the remaining tables.
RECURSIVE BalanceLoop(_, _)
BalanceLoop(all, active_tables) ==
    IF ~check_balance_needed(all, active_tables) THEN all
    ELSE LET move == get_move(all, active_tables)
         IN  IF move = NoMove THEN all
             ELSE BalanceLoop(apply_move(all, move), active_tables)

_balance_tables(m) ==
    LET broke == BreakTables(m.tables)
    IN  IF Len(broke.active_tables) <= 1 /\ broke.broken = NoTable THEN m
        ELSE [m EXCEPT !.tables = BalanceLoop(broke.tables, broke.active_tables)]

\* The remaining players (seats) sorted by stack, the highest first; the sort
\* is stable.
RECURSIVE ByStack(_, _)
ByStack(remaining, stack) ==
    IF stack < 0 THEN <<>>
    ELSE SelectSeq(remaining, LAMBDA seat : seat.stack = stack) \o ByStack(remaining, stack - 1)

_calculate_payouts(m) ==
    LET eliminated == [k \in 1..Len(m.eliminations) |->
                          [wallet |-> m.eliminations[Len(m.eliminations) + 1 - k].wallet,
                           rank |-> m.eliminations[Len(m.eliminations) + 1 - k].final_rank]]
        remaining == SelectSeq(SeatsInOrder(m),
                               LAMBDA seat : seat.status = "active"
                                             /\ seat.player_wallet # NoWallet)
        sorted == ByStack(remaining, MaxOf({0} \cup {remaining[k].stack : k \in 1..Len(remaining)}))
        winners == [k \in 1..Len(sorted) |-> [wallet |-> sorted[k].player_wallet, rank |-> k]]
    IN  PayoutCalculator_calculate(eliminated \o winners)

\* The end of run, line 337.
Payouts(m) ==
    [m EXCEPT !.awards = _calculate_payouts(m), !.last_call = Call("run", "returned"),
              !.pc = "idle"]

(***************************************************************************)
(* One hand: HandController(...) and run, for every list of players,       *)
(* button, ante and deal within the bounds.                                *)
(***************************************************************************)
HandInit ==
    /\ \E n \in 2..MaxHandPlayers :
       \E stacks \in [0..(n - 1) -> 1..MaxStack] :
       \E strength \in [0..(n - 1) -> 1..MaxStrength] :
       \E button \in 0..(n - 1) :
       \E lv \in 1..Len(Levels) :
          hand = HandController_init(
                     [i \in 0..(n - 1) |-> PlayerConfig(i + 1, stacks[i], i)],
                     button, Levels[lv].small_blind, Levels[lv].big_blind,
                     Levels[lv].ante, strength)
    /\ tm = 0

HandStep ==
    /\ hand.pc \in InternalPcs
    /\ hand' = RunStep(hand)
    /\ UNCHANGED tm

HandDecision ==
    /\ hand.pc = "await"
    /\ \E action \in Answers : hand' = Decide(hand, action)
    /\ UNCHANGED tm

HandCallbackFails ==
    /\ hand.pc = "await"
    /\ hand' = CallbackFails(hand)
    /\ UNCHANGED tm

HandNext == HandStep \/ HandDecision \/ HandCallbackFails

SpecHand == HandInit /\ [][HandNext]_vars

(***************************************************************************)
(* One hand between players who hold DeepStack chips or a single chip: the *)
(* stacks a raise that is not all-in needs against blinds of 1 and 2.      *)
(***************************************************************************)
DeepInit ==
    /\ \E n \in 2..MaxHandPlayers :
       \E stacks \in [0..(n - 1) -> {1, DeepStack}] :
       \E strength \in [0..(n - 1) -> 1..MaxStrength] :
       \E button \in 0..(n - 1) :
       \E lv \in 1..Len(Levels) :
          hand = HandController_init(
                     [i \in 0..(n - 1) |-> PlayerConfig(i + 1, stacks[i], i)],
                     button, Levels[lv].small_blind, Levels[lv].big_blind,
                     Levels[lv].ante, strength)
    /\ tm = 0

SpecDeep == DeepInit /\ [][HandNext]_vars

(***************************************************************************)
(* One hand at the first blind level, the button at the first seat, between *)
(* players who hold LongStack chips or a single chip and whose hands tie at *)
(* the showdown: run goes on while it has a step to take, and the callback  *)
(* answers, with an Action or an exception, whenever it is asked.           *)
(***************************************************************************)
LongInit ==
    /\ \E n \in 2..MaxHandPlayers :
       \E stacks \in [0..(n - 1) -> {1, LongStack}] :
          hand = HandController_init(
                     [i \in 0..(n - 1) |-> PlayerConfig(i + 1, stacks[i], i)],
                     0, Levels[1].small_blind, Levels[1].big_blind,
                     Levels[1].ante, [i \in 0..(n - 1) |-> 1])
    /\ tm = 0

\* The fairness of the steps of run is WF_vars(HandStep) written out, a step
\* of run being enabled exactly at the places of InternalPcs.
SpecLong ==
    /\ LongInit
    /\ [][HandNext]_vars
    /\ WF_vars(HandCallbackFails \/ HandDecision)
    /\ ([]<>(hand.pc \notin InternalPcs) \/ []<><<HandStep>>_vars)

(***************************************************************************)
(* One hand of three at the blind level with the ante, the button at the   *)
(* first seat, between players who hold BigStack chips or two: the stacks  *)
(* with which a player can raise over the big blind and the ante without   *)
(* going all-in and be asked again after a player went all-in for less.    *)
(***************************************************************************)
ReraiseInit ==
    /\ \E stacks \in [0..(MaxHandPlayers - 1) -> {2, 4, BigStack}] :
       \E strength \in [0..(MaxHandPlayers - 1) -> 1..MaxStrength] :
          hand = HandController_init(
                     [i \in 0..(MaxHandPlayers - 1) |-> PlayerConfig(i + 1, stacks[i], i)],
                     0, Levels[2].small_blind, Levels[2].big_blind,
                     Levels[2].ante, strength)
    /\ tm = 0

\* The answers of the callback, with raises up to MaxReraiseTo.
ReraiseAnswers ==
    Answers \cup {Action_raise_to(a) : a \in 0..MaxReraiseTo}

HandReraiseDecision ==
    /\ hand.pc = "await"
    /\ \E action \in ReraiseAnswers : hand' = Decide(hand, action)
    /\ UNCHANGED tm

ReraiseNext == HandStep \/ HandReraiseDecision \/ HandCallbackFails

SpecReraise == ReraiseInit /\ [][ReraiseNext]_vars

(***************************************************************************)
(* SidePotCalculator on its own: calculate for every list of players and   *)
(* distribute for every list of pots and every ranking within the bounds.  *)
(* hand holds the call under way: its arguments, its results and pc.       *)
(***************************************************************************)
PotWallets == 1..MaxHandPlayers

\* The lists of players calculate is given: wallet i + 1 at index i, any
\* current_bet, folded or not, all-in or not; no player is both folded and
\* all-in (a player who is all-in is not asked again, betting.py 114-115).
PlayerFlags ==
    {f \in [current_bet : 0..MaxBet, is_active : BOOLEAN, is_all_in : BOOLEAN] :
        f.is_all_in => f.is_active}

PlayerLists == UNION {[0..(n - 1) -> PlayerFlags] : n \in 1..MaxHandPlayers}

PlayerOf(i, f) ==
    [wallet |-> i + 1, stack |-> 0, current_bet |-> f.current_bet,
     is_active |-> f.is_active, is_all_in |-> f.is_all_in, has_acted |-> TRUE]

\* The lists of wallets without repetition.
WalletLists ==
    {w \in UNION {[1..k -> PotWallets] : k \in 0..MaxHandPlayers} :
        \A a, b \in DOMAIN w : a # b => w[a] # w[b]}

PotLists ==
    UNION {[1..k -> [amount : 0..MaxPotAmount, eligible_players : WalletLists]] :
              k \in 0..MaxPots}

\* hand_rankings: a rank (lower is better) for some of the wallets.
Rankings ==
    UNION {[W -> 1..MaxStrength] : W \in SUBSET PotWallets}

PotsCall(pc, players, pots, hand_rankings, winnings) ==
    [pc |-> pc, players |-> players, pots |-> pots,
     hand_rankings |-> hand_rankings, winnings |-> winnings]

PotsInit ==
    /\ \/ \E f \in PlayerLists :
             hand = PotsCall("calculate", [i \in DOMAIN f |-> PlayerOf(i, f[i])],
                             <<>>, <<>>, <<>>)
       \/ \E pots \in PotLists :
             hand = PotsCall("distribute", <<>>, pots, <<>>, <<>>)
    /\ tm = 0

PotsCalculate ==
    /\ hand.pc = "calculate"
    /\ hand' = [hand EXCEPT !.pots = calculate(hand.players), !.pc = "distribute"]
    /\ UNCHANGED tm

PotsDistribute ==
    /\ hand.pc = "distribute"
    /\ \E hand_rankings \in Rankings :
          hand' = [hand EXCEPT !.hand_rankings = hand_rankings,
                               !.winnings = distribute(hand.pots, hand_rankings),
                               !.pc = "done"]
    /\ UNCHANGED tm

PotsNext == PotsCalculate \/ PotsDistribute

SpecPots == PotsInit /\ [][PotsNext]_vars

(***************************************************************************)
(* deck.py: Deck.  The source's deck has 52 cards; the deck here has       *)
(* DeckSize cards, numbered as they stand in CARDS.  A random.Random is    *)
(* its state, a number: randint takes its value from the state and leaves  *)
(* the rest of it, so that the numbers drawn are a function of the state   *)
(* the generator was seeded with and every sequence of draws has a seed.   *)
(***************************************************************************)
CARDS == [k \in 1..DeckSize |-> k]

\* int.from_bytes(seed, 'big')
RECURSIVE from_bytes(_)
from_bytes(seed) ==
    IF seed = <<>> THEN 0
    ELSE 256 * from_bytes(SubSeq(seed, 1, Len(seed) - 1)) + seed[Len(seed)]

\* rng.randint(0, i): the number drawn and the generator afterwards.
randint(rng, i) == [value |-> rng % (i + 1), rng |-> rng \div (i + 1)]

\* _create_rng ignoring the seed: the generator stays as random.Random()
\* made it.
_create_rng_unseeded(seed, entropy) == entropy

\* _create_rng: random.Random() starts from the system's entropy, seed()
\* then sets the state from the seed.
_create_rng(seed, entropy) == from_bytes(seed)

\* The loop of _shuffle from index i down to 1, on 0-based positions.
RECURSIVE FisherYates(_, _, _)
FisherYates(cards, rng, i) ==
    IF i < 1 THEN cards
    ELSE LET drawn == randint(rng, i)
             j == drawn.value
             swapped == [cards EXCEPT ![i + 1] = cards[j + 1], ![j + 1] = cards[i + 1]]
         IN  FisherYates(swapped, drawn.rng, i - 1)

_shuffle(rng) == FisherYates(CARDS, rng, Len(CARDS) - 1)

Deck_init(seed, entropy) ==
    [cards |-> _shuffle(_create_rng(seed, entropy)), _dealt |-> 0]

remaining(deck) == Len(deck.cards) - deck._dealt

\* deal without the advance of _dealt.
deal_without_advance(deck, count) ==
    IF count < 0 \/ count > remaining(deck)
    THEN [raised |-> TRUE, deck |-> deck, dealt_cards |-> <<>>]
    ELSE [raised |-> FALSE,
          deck |-> deck,
          dealt_cards |-> SubSeq(deck.cards, deck._dealt + 1, deck._dealt + count)]

\* deal: whether it raised ValueError, the deck afterwards, the cards returned.
deal(deck, count) ==
    IF count < 0 \/ count > remaining(deck)
    THEN [raised |-> TRUE, deck |-> deck, dealt_cards |-> <<>>]
    ELSE [raised |-> FALSE,
          deck |-> [deck EXCEPT !._dealt = @ + count],
          dealt_cards |-> SubSeq(deck.cards, deck._dealt + 1, deck._dealt + count)]

(***************************************************************************)
(* Two Decks made from one seed, and the same deal calls on both.  hand    *)
(* holds the two decks, what the last deal was asked for and returned on   *)
(* each, and all the cards the first deck has returned so far.             *)
(***************************************************************************)
\* The seeds: one byte, or the same byte after a zero byte.
Seeds == {<<b>> : b \in 0..MaxSeedByte} \cup {<<0, b>> : b \in 0..MaxSeedByte}

DeckInit ==
    /\ \E seed \in Seeds :
       \E entropy \in 0..MaxEntropy :
       \E twin_entropy \in 0..MaxEntropy :
          hand = [seed |-> seed,
                  deck |-> Deck_init(seed, entropy),
                  twin |-> Deck_init(seed, twin_entropy),
                  count |-> 0,
                  error |-> "none",
                  dealt_cards |-> <<>>,
                  twin_error |-> "none",
                  twin_dealt_cards |-> <<>>,
                  returned |-> <<>>]
    /\ tm = 0

DeckDeal ==
    /\ \E count \in (0 - 1)..(DeckSize + 1) :
          LET first == deal(hand.deck, count)
              second == deal(hand.twin, count)
          IN  hand' = [hand EXCEPT
                          !.deck = first.deck,
                          !.twin = second.deck,
                          !.count = count,
                          !.error = IF first.raised THEN "ValueError" ELSE "none",
                          !.dealt_cards = first.dealt_cards,
                          !.twin_error = IF second.raised THEN "ValueError" ELSE "none",
                          !.twin_dealt_cards = second.dealt_cards,
                          !.returned = @ \o first.dealt_cards]
    /\ UNCHANGED tm

DeckNext == DeckDeal

SpecDeck == DeckInit /\ [][DeckNext]_vars

(***************************************************************************)
(* hand_evaluator.py: HandRank, EvaluatedHand and HandEvaluator.  A card   *)
(* is [rank, suit]; the deck here has the NRanks lowest-to-ace ranks in     *)
(* NSuits suits, the ace being the highest rank as in the source's deck of *)
(* 13 ranks.  An EvaluatedHand is [rank, rank_values], the fields its       *)
(* comparisons read.                                                       *)
(***************************************************************************)
HIGH_CARD == 1
PAIR == 2
TWO_PAIR == 3
THREE_OF_A_KIND == 4
STRAIGHT == 5
FLUSH == 6
FULL_HOUSE == 7
FOUR_OF_A_KIND == 8
STRAIGHT_FLUSH == 9
ROYAL_FLUSH == 10

EvaluatedHand(rank, rank_values) == [rank |-> rank, rank_values |-> rank_values]

\* The order of Python's tuples: by the first place where they differ, a
\* proper prefix before the longer tuple.
TupleLess(a, b) ==
    LET differ == {i \in 1..MinOf({Len(a), Len(b)}) : a[i] # b[i]}
    IN  IF differ = {} THEN Len(a) < Len(b)
        ELSE a[MinOf(differ)] < b[MinOf(differ)]

__lt__(self, other) ==
    IF self.rank # other.rank THEN self.rank < other.rank
    ELSE TupleLess(self.rank_values, other.rank_values)

__eq__(self, other) ==
    self.rank = other.rank /\ self.rank_values = other.rank_values

__le__(self, other) == __lt__(self, other) \/ __eq__(self, other)

\* __gt__ as the negation of __lt__ alone.
__gt___not_less(self, other) == ~__lt__(self, other)

__gt__(self, other) == ~__le__(self, other)

__ge__(self, other) == ~__lt__(self, other)

\* RANK_VALUES: the value of the rank of number r, from 0 for the deuce up to
\* Ace for the ace.
RANK_VALUES == [r \in 1..NRanks |-> r - 1]

Ace == RANK_VALUES[NRanks]

_get_rank_value(card) == RANK_VALUES[card.rank]

RankValuesOf(cards) == [k \in 1..Len(cards) |-> _get_rank_value(cards[k])]

\* sorted(values, reverse=True)
RECURSIVE SortedDescending(_)
SortedDescending(values) ==
    IF Len(values) = 0 THEN <<>>
    ELSE LET m == MaxOf({values[k] : k \in 1..Len(values)})
             at == MinOf({k \in 1..Len(values) : values[k] = m})
         IN  <<m>> \o SortedDescending([k \in 1..(Len(values) - 1) |->
                                           IF k < at THEN values[k] ELSE values[k + 1]])

Reversed(values) == [k \in 1..Len(values) |-> values[Len(values) + 1 - k]]

_is_flush(cards) ==
    Len(cards) = 5 /\ Cardinality({cards[k].suit : k \in 1..Len(cards)}) = 1

\* _is_straight with the wheel's high card taken as the ace.
_is_straight_wheel_ace_high(cards) ==
    LET values == Reversed(SortedDescending(RankValuesOf(cards)))
    IN  IF Len(cards) # 5 THEN [is_straight |-> FALSE, straight_high |-> 0]
        ELSE IF values = [k \in 1..5 |-> values[1] + k - 1]
        THEN [is_straight |-> TRUE, straight_high |-> values[5]]
        ELSE IF values = <<0, 1, 2, 3, Ace>>
        THEN [is_straight |-> TRUE, straight_high |-> Ace]
        ELSE [is_straight |-> FALSE, straight_high |-> 0]

\* _is_straight: whether the cards are a straight, and its high card, 3 (the
\* five) for the wheel.
_is_straight(cards) ==
    LET values == Reversed(SortedDescending(RankValuesOf(cards)))
    IN  IF Len(cards) # 5 THEN [is_straight |-> FALSE, straight_high |-> 0]
        ELSE IF values = [k \in 1..5 |-> values[1] + k - 1]
        THEN [is_straight |-> TRUE, straight_high |-> values[5]]
        ELSE IF values = <<0, 1, 2, 3, Ace>>
        THEN [is_straight |-> TRUE, straight_high |-> 3]
        ELSE [is_straight |-> FALSE, straight_high |-> 0]

_get_rank_counts(cards) ==
    [value \in {_get_rank_value(cards[k]) : k \in 1..Len(cards)} |->
        Cardinality({k \in 1..Len(cards) : _get_rank_value(cards[k]) = value})]

\* None, where a rank value is looked for.
NoRank == 0 - 2

_find_n_of_a_kind(rank_counts, n) ==
    LET matches == {rank \in DOMAIN rank_counts : rank_counts[rank] = n}
    IN  IF matches = {} THEN NoRank ELSE MaxOf(matches)

\* The ranks that appear twice, in the order the dictionary holds them: that
\* of their first cards.
_find_all_pairs(cards, rank_counts) ==
    LET firsts == {k \in 1..Len(cards) :
                      /\ rank_counts[_get_rank_value(cards[k])] = 2
                      /\ \A j \in 1..(k - 1) :
                            _get_rank_value(cards[j]) # _get_rank_value(cards[k])}
    IN  [i \in 1..Cardinality(firsts) |-> _get_rank_value(cards[SortedSeq(firsts)[i]])]

_get_kickers(cards, exclude_ranks, count) ==
    LET kept == SortedSeq({k \in 1..Len(cards) : _get_rank_value(cards[k]) \notin exclude_ranks})
        kicker_values == SortedDescending([i \in 1..Len(kept) |-> _get_rank_value(cards[kept[i]])])
    IN  [i \in 1..MinOf({count, Len(kicker_values)}) |-> kicker_values[i]]

_evaluate_five_cards(cards) ==
    LET is_flush == _is_flush(cards)
        straight == _is_straight(cards)
        straight_high == straight.straight_high
        rank_counts == _get_rank_counts(cards)
        quads == _find_n_of_a_kind(rank_counts, 4)
        trips == _find_n_of_a_kind(rank_counts, 3)
        pairs == _find_all_pairs(cards, rank_counts)
        pair_set == {pairs[i] : i \in 1..Len(pairs)}
        top_pairs == SortedDescending(pairs)
        sorted_values == SortedDescending(RankValuesOf(cards))
    IN  IF is_flush /\ straight.is_straight
        THEN IF straight_high = Ace
             THEN EvaluatedHand(ROYAL_FLUSH, <<Ace, Ace - 1, Ace - 2, Ace - 3, Ace - 4>>)
             ELSE EvaluatedHand(STRAIGHT_FLUSH,
                                IF straight_high # 3 THEN sorted_values
                                ELSE <<3, 2, 1, 0, 0 - 1>>)
        ELSE IF quads # NoRank
        THEN EvaluatedHand(FOUR_OF_A_KIND, <<quads, _get_kickers(cards, {quads}, 1)[1]>>)
        ELSE IF trips # NoRank /\ Len(pairs) > 0
        THEN EvaluatedHand(FULL_HOUSE, <<trips, MaxOf(pair_set)>>)
        ELSE IF is_flush
        THEN EvaluatedHand(FLUSH, sorted_values)
        ELSE IF straight.is_straight
        THEN EvaluatedHand(STRAIGHT,
                           IF straight_high = 3 THEN <<3, 2, 1, 0, 0 - 1>>
                           ELSE [k \in 1..5 |-> straight_high - (k - 1)])
        ELSE IF trips # NoRank
        THEN EvaluatedHand(THREE_OF_A_KIND, <<trips>> \o _get_kickers(cards, {trips}, 2))
        ELSE IF Len(pairs) >= 2
        THEN EvaluatedHand(TWO_PAIR,
                           <<top_pairs[1], top_pairs[2],
                             _get_kickers(cards, {top_pairs[1], top_pairs[2]}, 1)[1]>>)
        ELSE IF Len(pairs) = 1
        THEN EvaluatedHand(PAIR, <<pairs[1]>> \o _get_kickers(cards, {pairs[1]}, 3))
        ELSE EvaluatedHand(HIGH_CARD, sorted_values)

\* compare: -1 if hand1 loses, 0 for a tie, 1 if hand1 wins.
compare(hand1, hand2) ==
    IF __lt__(hand1, hand2) THEN 0 - 1
    ELSE IF __gt__(hand1, hand2) THEN 1
    ELSE 0

(***************************************************************************)
(* The evaluation of five cards of the deck and its comparison with the    *)
(* evaluation of five others.                                              *)
(***************************************************************************)
\* The cards of the deck, suit by suit.
EvalDeck ==
    [k \in 1..(NRanks * NSuits) |->
        [rank |-> ((k - 1) % NRanks) + 1, suit |-> ((k - 1) \div NRanks) + 1]]

\* The lists of count places of the deck from lowest on, in rising order.
RECURSIVE Rising(_, _)
Rising(count, lowest) ==
    IF count = 0 THEN {<<>>}
    ELSE UNION {{<<c>> \o rest : rest \in Rising(count - 1, c + 1)} :
                   c \in lowest..Len(EvalDeck)}

FiveCards == {[k \in 1..5 |-> EvalDeck[places[k]]] : places \in Rising(5, 1)}

\* The hands the evaluations are compared with: a hand of every kind the deck
\* holds, and the straights and straight flushes.
Opponents ==
    {[k \in 1..5 |-> EvalDeck[places[k]]] : places \in
        {<<1, 2, 3, 4, 5>>, <<1, 2, 3, 4, 6>>, <<2, 3, 4, 5, 6>>,
         <<1, 2, 3, 4, NRanks + 5>>, <<1, 2, 3, 4, NRanks + 6>>,
         <<2, 3, 4, 5, NRanks + 6>>, <<1, 2, 3, 5, 6>>,
         <<1, NRanks + 1, 2 * NRanks + 1, 2, 3>>,
         <<NRanks, 2 * NRanks, 3 * NRanks, 1, NRanks + 1>>,
         <<1, NRanks + 1, 2, NRanks + 2, 3>>, <<1, NRanks + 1, 2, 3, 4>>,
         <<1, 2, 3, 4, NRanks + 4>>, <<1, 2, 3, 5, NRanks + 6>>}}

NoHand == EvaluatedHand(0, <<>>)

EvalInit ==
    /\ hand \in {[cards |-> cards, against |-> <<>>, pc |-> "dealt",
                  evaluated |-> NoHand, opponent |-> NoHand, compared |-> 0] :
                    cards \in FiveCards}
    /\ tm = 0

EvalEvaluate ==
    /\ hand.pc = "dealt"
    /\ hand' = [hand EXCEPT !.evaluated = _evaluate_five_cards(hand.cards),
                            !.pc = "evaluated"]
    /\ UNCHANGED tm

EvalCompare ==
    /\ hand.pc = "evaluated"
    /\ \E against \in Opponents :
          LET opponent == _evaluate_five_cards(against)
          IN  hand' = [hand EXCEPT !.against = against,
                                   !.opponent = opponent,
                                   !.compared = compare(hand.evaluated, opponent),
                                   !.pc = "compared"]
    /\ UNCHANGED tm

EvalNext == EvalEvaluate \/ EvalCompare

SpecEval == EvalInit /\ [][EvalNext]_vars

(***************************************************************************)
(* One tournament: a TournamentManager, the calls made on it, and run with *)
(* the hands of the tables of a round interleaved at the answers of the    *)
(* decision callback.                                                      *)
(***************************************************************************)
\* The orders the seeded shuffle of the registered wallets 1..n may yield.
Shuffles(n) == {[k \in 1..n |-> k], [k \in 1..n |-> n + 1 - k]}

\* The orders the seeded shuffle of the seat positions of a table may yield.
SeatOrderChoices ==
    {[k \in 1..MAX_SEATS |-> k - 1], [k \in 1..MAX_SEATS |-> MAX_SEATS - k]}

SeatOrders(n) == [1.._calculate_table_count(n) -> SeatOrderChoices]

TournInit ==
    /\ tm = TournamentManager_init
    /\ hand = 0

TmOpenRegistration ==
    /\ tm.pc = "idle"
    /\ tm' = open_registration(tm)
    /\ UNCHANGED hand

\* The wallets register in the order of their numbers.
TmRegister ==
    /\ tm.pc = "idle"
    /\ \E wallet \in 1..(MaxPlayers + 1) :
          /\ wallet <= Cardinality(tm.registrations) + 1
          /\ tm' = register_player(tm, wallet)
    /\ UNCHANGED hand

TmUnregister ==
    /\ tm.pc = "idle"
    /\ \E wallet \in 1..(MaxPlayers + 1) :
          /\ wallet >= Cardinality(tm.registrations)
          /\ tm' = unregister_player(tm, wallet)
    /\ UNCHANGED hand

TmCloseRegistration ==
    /\ tm.pc = "idle"
    /\ tm' = close_registration(tm)
    /\ UNCHANGED hand

TmStart ==
    /\ tm.pc = "idle"
    /\ \E shuffled_players \in Shuffles(Cardinality(tm.registrations)) :
       \E seat_orders \in SeatOrders(Cardinality(tm.registrations)) :
          tm' = start(tm, shuffled_players, seat_orders)
    /\ UNCHANGED hand

TmRun ==
    /\ tm.pc = "idle"
    /\ \E shuffled_players \in Shuffles(Cardinality(tm.registrations)) :
       \E seat_orders \in SeatOrders(Cardinality(tm.registrations)) :
          tm' = RunEnter(tm, shuffled_players, seat_orders)
    /\ UNCHANGED hand

TmLoopHead ==
    /\ tm.pc = "loop"
    /\ tm.hand_number + Len(_get_active_tables(tm)) <= MaxHandNumber
    /\ \E elapsed \in BOOLEAN : tm' = LoopHead(tm, elapsed)
    /\ UNCHANGED hand

TmDecision ==
    /\ tm.pc = "gather"
    /\ \E tid \in DOMAIN tm.active_hands :
          /\ tm.active_hands[tid].pc = "await"
          /\ \E action \in Answers :
                tm' = AfterHandStep(tm, tid, RunToStop(Decide(tm.active_hands[tid], action)))
    /\ UNCHANGED hand

TmCallbackFails ==
    /\ tm.pc = "gather"
    /\ \E tid \in DOMAIN tm.active_hands :
          /\ tm.active_hands[tid].pc = "await"
          /\ tm' = AfterHandStep(tm, tid, CallbackFails(tm.active_hands[tid]))
    /\ UNCHANGED hand

\* The showdown of the hand of a table, for every deal of the hand's deck.
TmShowdown ==
    /\ tm.pc = "gather"
    /\ \E tid \in DOMAIN tm.active_hands :
          /\ tm.active_hands[tid].pc = "showdown"
          /\ \E strength \in [DOMAIN tm.active_hands[tid].players -> 1..MaxStrength] :
                tm' = AfterHandStep(tm, tid,
                          RunToStop(RunStep([tm.active_hands[tid] EXCEPT
                                                !.strength = strength])))
    /\ UNCHANGED hand

\* The gather returning with the first task that has ended.
TmGather_with_first_result ==
    /\ tm.pc = "gather"
    /\ \E tid \in DOMAIN tm.results : tm.results[tid] # Pending
    /\ tm' = Gather(tm)
    /\ UNCHANGED hand

\* The gather returns once the task of every table has ended.
TmGather ==
    /\ tm.pc = "gather"
    /\ \A tid \in DOMAIN tm.results : tm.results[tid] # Pending
    /\ tm' = Gather(tm)
    /\ UNCHANGED hand

TmBalance ==
    /\ tm.pc = "balance"
    /\ tm' = [_balance_tables(tm) EXCEPT !.pc = "update"]
    /\ UNCHANGED hand

TmUpdatePhase ==
    /\ tm.pc = "update"
    /\ tm' = [_update_phase(tm) EXCEPT !.pc = "loop"]
    /\ UNCHANGED hand

TmPayouts ==
    /\ tm.pc = "payouts"
    /\ tm' = Payouts(tm)
    /\ UNCHANGED hand

TournNext ==
    \/ TmOpenRegistration
    \/ TmRegister
    \/ TmUnregister
    \/ TmCloseRegistration
    \/ TmStart
    \/ TmRun
    \/ TmLoopHead
    \/ TmDecision
    \/ TmCallbackFails
    \/ TmShowdown
    \/ TmGather
    \/ TmBalance
    \/ TmUpdatePhase
    \/ TmPayouts

SpecTourn == TournInit /\ [][TournNext]_vars

(***************************************************************************)
(* run on a started tournament whose callback always returns, and returns  *)
(* an action that apply_action accepts.  The tournament was configured     *)
(* with a starting_stack of RunStack and started with RunPlayers players   *)
(* at most; run is in its loop.  hand_number is a Python int that grows    *)
(* with every hand and only names the hand and seeds its deck (whose deal  *)
(* TmShowdown chooses), and hands_history is a list that nothing reads: a  *)
(* round that begins after hand MaxHandNumber numbers its hands from       *)
(* MaxHandNumber on again, and counts its results from there.              *)
(***************************************************************************)
RunStack == 3

RunPlayers == 3

\* The answers apply_action accepts from the player the hand is asking.
LegalAnswers(h) == {action \in Answers : ~apply_action(h.betting_round, action).raised}

\* The manager after open_registration, n times register_player and start.
Started(n, shuffled_players, seat_orders) ==
    LET seating == create_seating(shuffled_players, seat_orders, RunStack)
    IN  _update_phase([TournamentManager_init EXCEPT
                          !.phase = "STARTING",
                          !.registrations = 1..n,
                          !.tables = seating.tables,
                          !.seat_assignments = seating.assignments,
                          !.level_started = TRUE,
                          !.last_call = Call("start", "none")])

RunInit ==
    /\ \E n \in MinPlayers..RunPlayers :
       \E shuffled_players \in Shuffles(n) :
       \E seat_orders \in SeatOrders(n) :
          tm = RunEnter(Started(n, shuffled_players, seat_orders),
                        shuffled_players, seat_orders)
    /\ hand = 0

TmNextRound ==
    /\ tm.pc = "loop"
    /\ \E elapsed \in BOOLEAN :
          tm' = LoopHead([tm EXCEPT !.hand_number =
                                        IF @ > MaxHandNumber THEN MaxHandNumber ELSE @,
                                    !.hands_history =
                                        IF @ > MaxHandNumber THEN MaxHandNumber ELSE @],
                         elapsed)
    /\ UNCHANGED hand

TmLegalDecision ==
    /\ tm.pc = "gather"
    /\ \E tid \in DOMAIN tm.active_hands :
          /\ tm.active_hands[tid].pc = "await"
          /\ \E action \in LegalAnswers(tm.active_hands[tid]) :
                tm' = AfterHandStep(tm, tid, RunToStop(Decide(tm.active_hands[tid], action)))
    /\ UNCHANGED hand

RunNext ==
    \/ TmNextRound
    \/ TmLegalDecision
    \/ TmShowdown
    \/ TmGather
    \/ TmBalance
    \/ TmUpdatePhase
    \/ TmPayouts

\* Every step of run is taken in the end and the callback always answers:
\* WF_vars(RunNext), written out for the steps before the payouts, one of
\* which can be taken at every place of run but "idle", where run has
\* returned.
SpecRun ==
    /\ RunInit
    /\ [][RunNext]_vars
    /\ WF_vars(TmPayouts)
    /\ ([]<>(tm.pc \in {"idle", "payouts"}) \/ []<><<RunNext>>_vars)

(***************************************************************************)
(* Claims about one hand (SpecHand)                                        *)
(***************************************************************************)
AllIdx(h) == DOMAIN h.players

SumStacks(h) == SumOver([i \in AllIdx(h) |-> h.players[i].stack], AllIdx(h))

SumStart(h) == SumOver(h.start_stack, AllIdx(h))

SumWinners(h) == SumOver(h.winners, DOMAIN h.winners)

Won(h, i) ==
    IF h.players[i].wallet \in DOMAIN h.winners THEN h.winners[h.players[i].wallet] ELSE 0

\* What player i put into the hand over all streets, once the winnings are
\* credited.
Contribution(h, i) == h.start_stack[i] - (h.players[i].stack - Won(h, i))

LesserOf(a, b) == IF a < b THEN a ELSE b

\* C1: when run has completed a hand, the stacks add up to what they added
\* up to before the hand, and the winners' amounts add up to pot_total.
C1_ChipsConserved ==
    hand.pc = "done" =>
        /\ SumStacks(hand) = SumStart(hand)
        /\ SumWinners(hand) = hand.pot

\* C2: run never fails with InvalidActionError, whatever the callback answers.
C2_NoInvalidActionError == hand.error # "InvalidActionError"

\* C3: at a showdown no player wins more than the side-pot rule allows: a
\* player who put c chips into the hand wins at most the sum over all players
\* of min(that player's contribution, c).
C3_SidePotCap ==
    (hand.pc \in {"complete", "done"} /\ _count_active_players(hand) > 1) =>
        \A i \in AllIdx(hand) :
            Won(hand, i) <= SumOver([j \in AllIdx(hand) |->
                                        LesserOf(Contribution(hand, j), Contribution(hand, i))],
                                    AllIdx(hand))

ActingPlayer(h) == h.betting_round.state.players[h.betting_round.state.action_on]

\* C9: get_valid_actions is [fold, call, raise] for an acting player who owes
\* chips, [check, raise] for one who owes nothing and empty for a folded or
\* all-in player; check is never offered against an outstanding bet.
C9_ValidActions ==
    hand.has_round =>
        LET st == hand.betting_round.state
            p == ActingPlayer(hand)
            offered == get_valid_actions(hand.betting_round)
        IN  /\ (~p.is_active \/ p.is_all_in) => offered = <<>>
            /\ (p.is_active /\ ~p.is_all_in /\ st.current_bet > p.current_bet)
                  => offered = <<"fold", "call", "raise">>
            /\ (p.is_active /\ ~p.is_all_in /\ ~(st.current_bet > p.current_bet))
                  => offered = <<"check", "raise">>
            /\ st.current_bet > p.current_bet => ~InSeq("check", offered)

\* A player who owes chips is asked for a decision.
C9_Witness ==
    /\ hand.pc = "await"
    /\ hand.betting_round.state.current_bet > ActingPlayer(hand).current_bet
    /\ get_state(hand).valid_actions = <<"fold", "call", "raise">>

\* C10: a raise_to(amount) of the acting player with amount - current_bet >=
\* stack is accepted whatever the minimum raise is, and leaves the player with
\* stack 0, all-in, and a current_bet of the old current_bet plus the old stack.
C10_AllInRaiseAccepted ==
    [][(/\ hand.pc = "await"
        /\ hand'.error # "CallbackError"
        /\ hand'.answer.action_type = "raise"
        /\ hand'.answer.has_amount
        /\ hand'.answer.amount - ActingPlayer(hand).current_bet >= ActingPlayer(hand).stack)
       => LET i == hand.betting_round.state.action_on
              before == hand.betting_round.state.players[i]
              after == hand'.betting_round.state.players[i]
          IN  /\ hand'.applied = "raise"
              /\ hand'.error = "none"
              /\ after.stack = 0
              /\ after.is_all_in
              /\ after.current_bet = before.current_bet + before.stack]_vars

\* An all-in raise of less than the minimum raise has been applied: the raise
\* it made, now min_raise, is smaller than the big blind the round began with.
C10_Witness ==
    /\ hand.has_round
    /\ hand.applied = "raise"
    /\ \E i \in DOMAIN hand.betting_round.state.players :
          LET p == hand.betting_round.state.players[i]
          IN  p.wallet = hand.asked /\ p.stack = 0 /\ p.is_all_in
    /\ hand.betting_round.state.min_raise < hand.big_blind

\* C11: an apply_action that raises InvalidActionError (an action type that is
\* not valid, a raise without amount, a raise_to of a player who is not all-in
\* by it below current_bet + min_raise) leaves the betting state as it was:
\* pot, current_bet, min_raise, action_on, the counters and every player.
C11_RejectedActionChangesNothing ==
    hand.pc = "await" =>
        \A action \in Answers :
            apply_action(hand.betting_round, action).raised
                => apply_action(hand.betting_round, action).r = hand.betting_round

\* The acting player owes chips and can afford more than the minimum raise:
\* a check, a raise without amount and a raise below the minimum are each
\* rejected, the last one by a player the raise would not put all-in.
C11_Witness ==
    /\ hand.pc = "await"
    /\ apply_action(hand.betting_round, Action_check).raised
    /\ apply_action(hand.betting_round, Action("raise", FALSE, 0)).raised
    /\ \E a \in 0..MaxRaiseTo :
          /\ a - ActingPlayer(hand).current_bet < ActingPlayer(hand).stack
          /\ a - ActingPlayer(hand).current_bet > 0
          /\ apply_action(hand.betting_round, Action_raise_to(a)).raised

\* The players of betting state st who can act and have not acted since the
\* round began or was last reopened.
StillToAct(st) ==
    {j \in DOMAIN st.players : CanAct(st.players[j]) /\ ~st.players[j].has_acted}

\* C12: a raise that is applied and does not put the raiser all-in makes
\* min_raise the size of the raise (raise_to less the old current_bet) and
\* leaves every other player who can act with the action still to take; a
\* player with the action to take keeps it until that player acts; and a
\* betting round that ends with two or more players in the hand ends with
\* nobody left to act.
C12_RaiseReopensAction ==
    [][(hand.pc = "await" /\ hand'.pc \in {"await", "end_round"})
       => LET st == hand.betting_round.state
              st2 == hand'.betting_round.state
              i == st.action_on
              others == {j \in DOMAIN st2.players \ {i} : CanAct(st2.players[j])}
          IN  /\ (hand'.applied = "raise" /\ ~st2.players[i].is_all_in)
                    => /\ st2.min_raise = st2.current_bet - st.current_bet
                       /\ st2.min_raise = hand'.answer.amount - st.current_bet
                       /\ StillToAct(st2) = others
                       /\ others # {} => hand'.pc = "await"
              /\ StillToAct(st) \ {i} \subseteq StillToAct(st2)
              /\ (hand'.pc = "end_round" /\ _count_active_players(hand') >= 2)
                    => StillToAct(st2) = {}]_vars

\* The button of three has called before the flop (it posts no blind, so its
\* bet is a call), a blind has then raised by more than the minimum without
\* going all-in, and the button is to act again.
C12_Witness ==
    /\ hand.pc = "await"
    /\ hand.applied = "raise"
    /\ hand.betting_round.state.min_raise > hand.big_blind
    /\ \E i \in DOMAIN hand.betting_round.state.players :
          LET p == hand.betting_round.state.players[i]
          IN  p.wallet = hand.asked /\ ~p.is_all_in /\ p.stack > 0
    /\ NumPlayers(hand) = 3
    /\ hand.phase = "PREFLOP"
    /\ ActingPlayer(hand).wallet = hand.players[hand.button_position].wallet
    /\ ActingPlayer(hand).current_bet > 0
    /\ ActingPlayer(hand).current_bet < hand.betting_round.state.current_bet
    /\ ~ActingPlayer(hand).has_acted

\* C13: whenever the betting round is complete with two or more players
\* still active, every active player who is not all-in has acted and has a
\* current_bet equal to the round's current_bet.
C13_CompleteRoundIsSettled ==
    (/\ hand.has_round
     /\ is_round_complete(hand.betting_round)
     /\ hand.betting_round.state.num_active >= 2)
    => \A i \in DOMAIN hand.betting_round.state.players :
          LET p == hand.betting_round.state.players[i]
          IN  CanAct(p) => /\ p.has_acted
                           /\ p.current_bet = hand.betting_round.state.current_bet

\* The largest current_bet among the players of betting state st.
LargestBet(st) == MaxOf({st.players[j].current_bet : j \in DOMAIN st.players} \cup {0})

\* C38: while a betting round of the hand is run, the round's current_bet is
\* the largest current_bet among its players, and no answer that is applied,
\* an all-in raise for less than the bet to call included, makes it less.
C38_CurrentBetIsLargestBet ==
    /\ []((hand.has_round /\ hand.pc \in {"await", "end_round"})
             => hand.betting_round.state.current_bet =
                    LargestBet(hand.betting_round.state))
    /\ [][(hand.pc = "await" /\ hand'.pc \in {"await", "end_round"})
             => hand'.betting_round.state.current_bet >=
                    hand.betting_round.state.current_bet]_vars

\* C39: an answer applied in a betting round moves chips only from stacks
\* into the pot: no player's stack is greater afterwards, no player's
\* current_bet is less and the pot is not less.
C39_ChipsFlowIntoPot ==
    [][(hand.pc = "await" /\ hand'.pc \in {"await", "end_round"})
          => LET st == hand.betting_round.state
                 st2 == hand'.betting_round.state
             IN  /\ \A j \in DOMAIN st.players :
                       /\ st2.players[j].stack <= st.players[j].stack
                       /\ st2.players[j].current_bet >= st.players[j].current_bet
                 /\ st2.pot >= st.pot]_vars

\* C40: an answer applied in a betting round touches the chips of the
\* acting player only: what leaves that player's stack is what the pot and
\* that player's current_bet gain, every other player keeps stack and
\* current_bet, and no stack is ever negative.
C40_OnlyActingPlayersChips ==
    /\ [](hand.has_round
             => \A j \in DOMAIN hand.betting_round.state.players :
                   hand.betting_round.state.players[j].stack >= 0)
    /\ [][(hand.pc = "await" /\ hand'.pc \in {"await", "end_round"})
             => LET st == hand.betting_round.state
                    st2 == hand'.betting_round.state
                    i == st.action_on
                    paid == st.players[i].stack - st2.players[i].stack
                IN  /\ st2.pot = st.pot + paid
                    /\ st2.players[i].current_bet = st.players[i].current_bet + paid
                    /\ \A j \in DOMAIN st.players \ {i} :
                          /\ st2.players[j].stack = st.players[j].stack
                          /\ st2.players[j].current_bet = st.players[j].current_bet]_vars

\* Before the flop of a hand of three a player has raised over the call of
\* another without going all-in, and the third is asked: the pot holds what
\* the three have bet.
C40_Witness ==
    /\ hand.pc = "await"
    /\ hand.phase = "PREFLOP"
    /\ hand.applied = "raise"
    /\ NumPlayers(hand) = 3
    /\ LET st == hand.betting_round.state
       IN  /\ st.pot = st.players[0].current_bet + st.players[1].current_bet
                          + st.players[2].current_bet
           /\ st.current_bet > hand.big_blind + hand.ante
           /\ \E i, j \in DOMAIN st.players :
                 /\ i # j
                 /\ st.players[i].current_bet = st.current_bet
                 /\ st.players[i].has_acted
                 /\ ~st.players[i].is_all_in
                 /\ st.players[j].current_bet = hand.big_blind + hand.ante
                 /\ st.players[j].wallet # hand.players[_get_bb_player_idx(hand)].wallet
                 /\ st.players[j].stack > 0

\* The blinds are posted and no decision has been asked for yet.
BlindsJustPosted(h) ==
    /\ h.phase \in {"POSTING_BLINDS", "DEALING", "PREFLOP"}
    /\ h.asked = NoWallet

\* C14: before the first decision of a hand is asked for, the small blind has
\* posted min(small_blind, stack) and no ante, the big blind has posted
\* min(big_blind + ante, stack), each of the two is all-in exactly when the
\* posting emptied the stack, nobody else has posted, and the pot is the sum
\* of the two postings.
C14_BlindsPosted ==
    BlindsJustPosted(hand) =>
        LET sb_idx == _get_sb_player_idx(hand)
            bb_idx == _get_bb_player_idx(hand)
            sb_amount == LesserOf(hand.small_blind, hand.start_stack[sb_idx])
            bb_amount == LesserOf(hand.big_blind + hand.ante, hand.start_stack[bb_idx])
        IN  /\ sb_idx # bb_idx
            /\ hand.players[sb_idx].current_bet = sb_amount
            /\ hand.players[sb_idx].stack = hand.start_stack[sb_idx] - sb_amount
            /\ hand.players[bb_idx].current_bet = bb_amount
            /\ hand.players[bb_idx].stack = hand.start_stack[bb_idx] - bb_amount
            /\ \A i \in {sb_idx, bb_idx} :
                  hand.players[i].is_all_in <=> hand.players[i].stack = 0
            /\ \A i \in AllIdx(hand) \ {sb_idx, bb_idx} :
                  /\ hand.players[i].current_bet = 0
                  /\ hand.players[i].stack = hand.start_stack[i]
                  /\ ~hand.players[i].is_all_in
            /\ hand.pot = sb_amount + bb_amount

\* The first decision of a hand of three with an ante is being asked for:
\* the big blind could not cover big blind and ante and is all-in, the small
\* blind has chips left.
C14_Witness ==
    /\ hand.pc = "await"
    /\ BlindsJustPosted(hand)
    /\ NumPlayers(hand) = 3
    /\ hand.ante > 0
    /\ hand.start_stack[_get_bb_player_idx(hand)] < hand.big_blind + hand.ante
    /\ hand.players[_get_bb_player_idx(hand)].is_all_in
    /\ ~hand.players[_get_sb_player_idx(hand)].is_all_in

\* The wallets of the players of hand h who have not folded.
NotFolded(h) == {h.players[i].wallet : i \in {j \in AllIdx(h) : h.players[j].is_active}}

\* C17: when run has completed a hand, every wallet in the winners is a
\* player who has not folded, and when all players but one have folded that
\* player's winnings are the whole pot.
C17_FoldedWinNothing ==
    hand.pc = "done" =>
        /\ DOMAIN hand.winners \subseteq NotFolded(hand)
        /\ _count_active_players(hand) = 1 =>
              \A w \in NotFolded(hand) :
                  /\ DOMAIN hand.winners = {w}
                  /\ hand.winners[w] = hand.pot

\* A hand of three is over: the first player of the list has folded after
\* putting chips in, another player has folded too, and the player left has
\* won the pot.
C17_Witness ==
    /\ hand.pc = "done"
    /\ NumPlayers(hand) = 3
    /\ _count_active_players(hand) = 1
    /\ ~hand.players[0].is_active
    /\ hand.players[0].stack < hand.start_stack[0]
    /\ hand.pot > 0
    /\ \E w \in DOMAIN hand.winners : hand.winners[w] = hand.pot

\* C30: whatever the callback answers, run comes to its end: it returns with
\* the hand in phase COMPLETE or an exception leaves it; no answers keep a
\* betting round asking for decisions for ever, and every step of run
\* between two decisions moves the hand on.
C30_HandTerminates ==
    /\ [](hand.pc \in InternalPcs => RunStep(hand) # hand)
    /\ <>(\/ hand.pc = "done" /\ hand.phase = "COMPLETE"
          \/ hand.pc = "failed")

\* run has returned from a hand of three players who began with LongStack
\* chips: one folded, and the two others each put in four chips beyond the
\* big blind, a bet and a raise of it that left chips behind.
C30_Witness ==
    /\ hand.pc = "done"
    /\ hand.phase = "COMPLETE"
    /\ hand.error = "none"
    /\ NumPlayers(hand) = 3
    /\ \A i \in DOMAIN hand.players : hand.start_stack[i] = LongStack
    /\ \E i, j, k \in DOMAIN hand.players :
          /\ i # j
          /\ Contribution(hand, i) = 6
          /\ Contribution(hand, j) = 6
          /\ ~hand.players[i].is_all_in
          /\ ~hand.players[j].is_all_in
          /\ ~hand.players[k].is_active

\* The place of a HandPhase in the order of the phases of a hand.
HandPhaseOrder(phase) ==
    CASE phase = "WAITING" -> 0
      [] phase = "POSTING_BLINDS" -> 1
      [] phase = "DEALING" -> 2
      [] phase = "PREFLOP" -> 3
      [] phase = "FLOP" -> 4
      [] phase = "TURN" -> 5
      [] phase = "RIVER" -> 6
      [] phase = "SHOWDOWN" -> 7
      [] OTHER -> 8

\* C32: during run the phase only moves on in the order POSTING_BLINDS,
\* DEALING, PREFLOP, FLOP, TURN, RIVER, SHOWDOWN, COMPLETE, and it passes over
\* a street only when at most one player is still active; a community card
\* is dealt only while two or more players are active; and at a showdown of
\* two or more active players exactly 5 community cards have been dealt.
C32_PhasesInOrder ==
    /\ []((hand.phase \in {"SHOWDOWN", "COMPLETE"} /\ _count_active_players(hand) >= 2)
             => hand.community_cards = 5)
    /\ [][/\ HandPhaseOrder(hand'.phase) >= HandPhaseOrder(hand.phase)
          /\ HandPhaseOrder(hand'.phase) > HandPhaseOrder(hand.phase) + 1
                => /\ _count_active_players(hand') <= 1
                   /\ hand'.phase = "SHOWDOWN"
          /\ hand'.community_cards # hand.community_cards
                => /\ _count_active_players(hand) >= 2
                   /\ hand'.community_cards > hand.community_cards
          /\ hand.phase = "COMPLETE" => hand'.phase = "COMPLETE"]_vars

\* A hand of three has ended by folds on the flop: run has returned with the
\* three cards of the flop dealt and no more.
C32_Witness ==
    /\ hand.pc = "done"
    /\ hand.phase = "COMPLETE"
    /\ NumPlayers(hand) = 3
    /\ _count_active_players(hand) = 1
    /\ hand.community_cards = 3
    /\ hand.applied = "fold"

\* The chips and flags of player i of the betting state st.
ChipsOf(st, i) ==
    <<st.players[i].stack, st.players[i].current_bet,
      st.players[i].is_active, st.players[i].is_all_in>>

\* run is about to begin a street of hand h.
AtStreetStart(h) == h.pc \in {"preflop", "flop", "turn", "river"}

\* C33: a decision is asked only of a player who is active and not all-in,
\* whom action_on names and who is offered at least one action; the answer
\* is applied to that player and moves the chips and flags of nobody else;
\* and once a street begins with at most one player able to act, no decision
\* is asked for in the rest of the hand, while the community cards of a hand
\* that two or more players are in are dealt to the fifth.
C33_DecisionsOfActingPlayer ==
    /\ [](hand.pc = "await"
             => /\ CanAct(ActingPlayer(hand))
                /\ get_state(hand).action_on = ActingPlayer(hand).wallet
                /\ get_state(hand).valid_actions # <<>>)
    /\ [][(hand.pc = "await" /\ hand'.pc \in {"await", "end_round"})
             => LET st == hand.betting_round.state
                    st2 == hand'.betting_round.state
                    i == st.action_on
                IN  /\ hand'.asked = st.players[i].wallet
                    /\ st2.players[i].wallet = st.players[i].wallet
                    /\ st2.players[i].has_acted
                    /\ hand'.applied \in {"fold", "check", "call", "raise"}
                    /\ hand'.applied = "fold" <=> ~st2.players[i].is_active
                    /\ \A j \in DOMAIN st.players \ {i} : ChipsOf(st2, j) = ChipsOf(st, j)]_vars
    /\ []((AtStreetStart(hand) /\ _count_players_can_act(hand) <= 1)
             => [](/\ hand.pc # "await"
                   /\ (hand.pc = "done" /\ _count_active_players(hand) >= 2)
                         => hand.community_cards = 5))

\* Two of three players went all-in before the flop and the third called
\* with chips to spare: run has returned without asking for a decision after
\* the flop, and the five community cards are dealt.
C33_Witness ==
    /\ hand.pc = "done"
    /\ NumPlayers(hand) = 3
    /\ _count_active_players(hand) = 3
    /\ Cardinality({i \in AllIdx(hand) : hand.players[i].is_all_in}) = 2
    /\ hand.community_cards = 5
    /\ hand.asked # NoWallet
    /\ hand.applied = "call"

(***************************************************************************)
(* Claims about SidePotCalculator (SpecPots)                               *)
(***************************************************************************)
\* What player p has put in between the bets lower and upper.
TierShare(p, lower, upper) ==
    IF p.current_bet <= lower THEN 0
    ELSE LesserOf(p.current_bet, upper) - lower

\* The tier between the bets lower and upper: the chips all players have put
\* in between the two, and the active players who have put some in, in list
\* order.
Tier(players, lower, upper) ==
    SidePot(SumOver([i \in DOMAIN players |-> TierShare(players[i], lower, upper)],
                    DOMAIN players),
            WalletsOf(players, {i \in DOMAIN players :
                                   players[i].is_active /\ players[i].current_bet > lower}))

\* The bounds of the tiers of a list of players: 0, the all-in levels in
\* ascending order, and the highest bet where it lies above them all.
TierBounds(players) ==
    LET bets == {players[i].current_bet : i \in DOMAIN players}
        levels == {players[i].current_bet :
                      i \in {j \in DOMAIN players :
                                players[j].is_all_in /\ players[j].current_bet > 0}}
    IN  SortedSeq({0} \cup levels \cup {MaxOf(bets)})

SumAmounts(pots) == SumOver([k \in DOMAIN pots |-> pots[k].amount], DOMAIN pots)

\* C15: for every list of players calculate returns the tiers of the
\* contributions, one per all-in level in ascending order and one above the
\* highest all-in level: the amounts add up to the sum of all current_bet,
\* and pot k is the chips put in within tier k, its eligible list the active
\* players who put chips into that tier (a folded player's chips count, the
\* player is not eligible).
C15_PotsPartition ==
    (hand.pc \in {"distribute", "done"} /\ hand.players # <<>>) =>
        LET bounds == TierBounds(hand.players)
        IN  /\ SumAmounts(hand.pots)
                  = SumOver([i \in DOMAIN hand.players |-> hand.players[i].current_bet],
                            DOMAIN hand.players)
            /\ Len(hand.pots) = Len(bounds) - 1
            /\ \A k \in DOMAIN hand.pots :
                  hand.pots[k] = Tier(hand.players, bounds[k], bounds[k + 1])

\* The eligible wallets of a pot that hold the best rank among its ranked
\* eligible wallets, in the order of the eligible list.
BestOf(pot, hand_rankings) ==
    LET ranked == SelectSeq(pot.eligible_players, LAMBDA w : w \in DOMAIN hand_rankings)
    IN  SelectSeq(ranked, LAMBDA w :
            \A k \in 1..Len(ranked) : hand_rankings[w] <= hand_rankings[ranked[k]])

\* What wallet w is due from one pot: nothing unless w is among the best, and
\* then an equal share, one chip more for the first amount % n of the best.
DueFrom(pot, hand_rankings, w) ==
    LET best == BestOf(pot, hand_rankings)
        n == Len(best)
        at == CHOOSE k \in 1..n : best[k] = w
    IN  IF ~InSeq(w, best) THEN 0
        ELSE (pot.amount \div n) + (IF at <= pot.amount % n THEN 1 ELSE 0)

\* Every pot has an eligible wallet that the rankings rank.
EveryPotRanked(pots, hand_rankings) ==
    \A k \in DOMAIN pots :
        \E e \in DOMAIN pots[k].eligible_players :
            pots[k].eligible_players[e] \in DOMAIN hand_rankings

\* C16: when every pot has an eligible wallet in the rankings, distribute
\* pays each pot to its eligible wallets of best rank only, in equal shares
\* with the odd chips going one each to the first of them in the order of the
\* eligible list, and the winnings add up to the sum of the pot amounts.
C16_DistributePaysBest ==
    (hand.pc = "done" /\ EveryPotRanked(hand.pots, hand.hand_rankings)) =>
        /\ DOMAIN hand.winnings =
              {w \in PotWallets : \E k \in DOMAIN hand.pots :
                                     InSeq(w, BestOf(hand.pots[k], hand.hand_rankings))}
        /\ \A w \in DOMAIN hand.winnings :
              hand.winnings[w] = SumOver([k \in DOMAIN hand.pots |->
                                             DueFrom(hand.pots[k], hand.hand_rankings, w)],
                                         DOMAIN hand.pots)
        /\ SumOver(hand.winnings, DOMAIN hand.winnings) = SumAmounts(hand.pots)

\* Two pots have been paid out; one of them, of three chips, went to two
\* wallets of equal rank, the later of the two in wallet order standing
\* first in the eligible list, with a worse-ranked wallet eligible as well.
C16_Witness ==
    /\ hand.pc = "done"
    /\ hand.players = <<>>
    /\ Len(hand.pots) = 2
    /\ EveryPotRanked(hand.pots, hand.hand_rankings)
    /\ \E k \in DOMAIN hand.pots :
          /\ hand.pots[k].amount = 3
          /\ Len(hand.pots[k].eligible_players) = 3
          /\ BestOf(hand.pots[k], hand.hand_rankings) = <<2, 1>>
          /\ hand.winnings[2] > hand.winnings[1]

(***************************************************************************)
(* Claims about one tournament (SpecTourn)                                 *)
(***************************************************************************)
\* The wallets that hold a seat of status active at table tb.
ActiveWallets(tb) == {tb.seats[i].player_wallet : i \in {j \in DOMAIN tb.seats :
                                                            tb.seats[j].status = "active"}}

AllActiveWallets(all) == UNION {ActiveWallets(all[i]) : i \in DOMAIN all}

\* The sum of the stacks of the seats of status active of all tables.
ActiveChips(m) ==
    SumOver([i \in TableIds(m) |->
                SumOver([j \in DOMAIN m.tables[i].seats |->
                            IF m.tables[i].seats[j].status = "active"
                            THEN m.tables[i].seats[j].stack ELSE 0],
                        DOMAIN m.tables[i].seats)],
            TableIds(m))

\* The players that hold chips, on whatever table.
HoldingChips(m) ==
    {<<i, j>> \in TableIds(m) \X (0..(MAX_SEATS - 1)) :
        m.tables[i].seats[j].player_wallet # NoWallet /\ m.tables[i].seats[j].stack > 0}

RunReturned(m) == m.pc = "idle" /\ m.last_call = Call("run", "returned")

\* C4: when run returns for a started tournament, exactly one player holds an
\* active seat and all the others have an EliminationRecord; the phase is
\* never COMPLETED while two or more players hold chips.
C4_OneWinner ==
    /\ (RunReturned(tm) /\ Len(tm.tables) > 0) =>
           /\ TM_count_active_players(tm) = 1
           /\ Len(tm.eliminations) + 1 = Cardinality(tm.registrations)
    /\ (tm.phase = "COMPLETED") => Cardinality(HoldingChips(tm)) < 2

\* C5: after every round of run the stacks of the active seats of all tables
\* add up to starting_stack times the number of registered players.
C5_TournamentChips ==
    (tm.pc = "loop" /\ Len(tm.tables) > 0) =>
        ActiveChips(tm) = StartingStack * Cardinality(tm.registrations)

\* C6: when _balance_tables breaks a table, every active player of that table
\* is afterwards at a seat of a remaining table that was empty, with the stack
\* they had; the broken table has no active player left and the active players
\* of the tournament are the same as before.
C6_BreakReseatsAll ==
    tm.pc = "balance" =>
        LET before == tm.tables
            broke == BreakTables(tm.tables)
            after == broke.tables
        IN  broke.broken # NoTable =>
               /\ player_count(after[broke.broken]) = 0
               /\ AllActiveWallets(after) = AllActiveWallets(before)
               /\ \A pos \in DOMAIN before[broke.broken].seats :
                     before[broke.broken].seats[pos].status = "active" =>
                        \E t \in (DOMAIN after) \ {broke.broken} :
                        \E to \in DOMAIN after[t].seats :
                           /\ before[t].seats[to].status = "empty"
                           /\ after[t].seats[to].status = "active"
                           /\ after[t].seats[to].player_wallet =
                                 before[broke.broken].seats[pos].player_wallet
                           /\ after[t].seats[to].stack = before[broke.broken].seats[pos].stack

\* C7: after _balance_tables has returned, the numbers of active players of
\* any two tables that have players differ by at most 1.
C7_TablesBalanced ==
    tm.pc = "update" =>
        \A a, b \in TableIds(tm) :
            (player_count(tm.tables[a]) > 0 /\ player_count(tm.tables[b]) > 0) =>
                player_count(tm.tables[a]) - player_count(tm.tables[b]) <= 1

\* The seat of the wallet at table tb holds what the hand's result says: no
\* chips and the status eliminated for an eliminated player, at least the
\* amount won for a winner who is not.
ResultAtSeat(tb, result, wallet) ==
    LET seat == tb.seats[get_player_seat(tb, wallet)]
    IN  /\ get_player_seat(tb, wallet) # NoSeat
        /\ wallet \in result.eliminations => (seat.status = "eliminated" /\ seat.stack = 0)
        /\ (wallet \in DOMAIN result.winners /\ wallet \notin result.eliminations) =>
              (seat.status = "active" /\ seat.stack >= result.winners[wallet])

\* C8: while the hands of a round are running, run neither returns nor
\* raises; a step of a hand leaves the seats of every table whose hand is
\* still running or has raised an exception as they were, the seats of a
\* table whose hand has returned hold the hand's result, whatever the other
\* hands did, and once all hands have ended the loop goes on to the
\* eliminations and the balancing with the tables as the hands left them.
C8_FailureIsolated ==
    [][tm.pc = "gather" =>
          /\ tm'.last_call = Call("run", "running")
          /\ tm'.pc \in {"gather", "balance"}
          /\ tm'.pc = "balance" => tm'.tables = tm.tables
          /\ \A tid \in DOMAIN tm'.results :
                /\ tm'.results[tid].kind \in {"pending", "Exception"} =>
                      tm'.tables[tid].seats = tm.tables[tid].seats
                /\ tm'.results[tid].kind = "HandResult" =>
                      \A wallet \in (DOMAIN tm'.results[tid].winners)
                                    \cup tm'.results[tid].eliminations :
                         ResultAtSeat(tm'.tables[tid], tm'.results[tid], wallet)]_vars

\* All hands of a round have ended: the hand of one table raised an
\* exception, the hand of another returned and its winner's seat holds more
\* than the starting stack.
C8_Witness ==
    /\ tm.pc = "gather"
    /\ DOMAIN tm.active_hands = {}
    /\ \E failed, other \in DOMAIN tm.results :
          /\ tm.results[failed].kind = "Exception"
          /\ tm.results[other].kind = "HandResult"
          /\ \E pos \in DOMAIN tm.tables[other].seats :
                /\ tm.tables[other].seats[pos].status = "active"
                /\ tm.tables[other].seats[pos].stack > StartingStack
\* C18: when run has returned, no two players share a final rank (the
\* final_rank of the eliminated players and the ranks 1..k of the k players
\* left are pairwise distinct), and the awards are one per paying rank
\* reached, their ranks strictly increasing.
C18_RanksDistinct ==
    (RunReturned(tm) /\ Len(tm.tables) > 0) =>
        LET left == 1..TM_count_active_players(tm)
            reached == left \cup {tm.eliminations[e].final_rank : e \in DOMAIN tm.eliminations}
        IN  /\ \A a, b \in DOMAIN tm.eliminations :
                  a # b => tm.eliminations[a].final_rank # tm.eliminations[b].final_rank
            /\ \A e \in DOMAIN tm.eliminations : tm.eliminations[e].final_rank \notin left
            /\ \A a, b \in DOMAIN tm.awards : a < b => tm.awards[a].rank < tm.awards[b].rank
            /\ {tm.awards[a].rank : a \in DOMAIN tm.awards} = reached \cap DOMAIN PayoutStructure

\* C19: a start with fewer registered players than min_players cancels the
\* tournament and raises ValueError with nothing started (no tables, no seat
\* assignments, the blind timer not started); from then on the phase stays
\* CANCELLED and every start raises ValueError again.
C19_TooFewPlayersCancels ==
    [][/\ (/\ tm.pc = "idle"
            /\ tm'.last_call.op = "start"
            /\ tm.phase \in {"REGISTRATION", "STARTING"}
            /\ Cardinality(tm.registrations) < MinPlayers)
           => /\ tm'.phase = "CANCELLED"
              /\ tm'.last_call.result = "ValueError"
              /\ tm'.tables = <<>>
              /\ tm'.seat_assignments = <<>>
              /\ ~tm'.level_started
              /\ tm'.registrations = tm.registrations
       /\ tm.phase = "CANCELLED"
           => /\ tm'.phase = "CANCELLED"
              /\ tm'.tables = <<>>
              /\ tm'.seat_assignments = <<>>
              /\ ~tm'.level_started
              /\ tm'.last_call.op = "start" => tm'.last_call.result = "ValueError"]_vars

\* A start with one registered player, one fewer than min_players, has
\* failed and left the tournament cancelled.
C19_Witness ==
    /\ tm.phase = "CANCELLED"
    /\ tm.last_call = Call("start", "ValueError")
    /\ Cardinality(tm.registrations) = MinPlayers - 1
    /\ tm.tables = <<>>

\* C20: the registrations change only in phase REGISTRATION and only by a
\* register_player or unregister_player that returns True, which adds a
\* wallet that was not registered or removes one that was; a call that
\* returns False leaves them as they were; they never number more than
\* max_players.
C20_RegistrationsGuarded ==
    [][/\ tm'.registrations # tm.registrations
           => /\ tm.phase = "REGISTRATION"
              /\ tm'.phase = "REGISTRATION"
              /\ \/ /\ tm'.last_call = Call("register_player", "True")
                    /\ \E wallet \in tm'.registrations \ tm.registrations :
                          tm'.registrations = tm.registrations \cup {wallet}
                 \/ /\ tm'.last_call = Call("unregister_player", "True")
                    /\ \E wallet \in tm.registrations :
                          tm'.registrations = tm.registrations \ {wallet}
       /\ (tm.pc = "idle" /\ tm'.last_call.result = "True")
           => tm'.registrations # tm.registrations
       /\ tm'.last_call.result = "False" => tm'.registrations = tm.registrations
       /\ Cardinality(tm'.registrations) <= MaxPlayers]_vars

\* The tournament is full and in phase REGISTRATION, and a register_player
\* has returned False.
C20_Witness ==
    /\ tm.phase = "REGISTRATION"
    /\ Cardinality(tm.registrations) = MaxPlayers
    /\ tm.last_call = Call("register_player", "False")

\* The place of a phase in the order of the tournament's life.
PhaseOrder(phase) ==
    CASE phase = "CREATED" -> 0
      [] phase = "REGISTRATION" -> 1
      [] phase = "STARTING" -> 2
      [] phase = "IN_PROGRESS" -> 3
      [] phase = "FINAL_TABLE" -> 4
      [] phase = "HEADS_UP" -> 5
      [] phase = "COMPLETED" -> 6

\* C21: whatever is called, the phase only moves forward in the order
\* CREATED, REGISTRATION, STARTING, IN_PROGRESS, FINAL_TABLE, HEADS_UP,
\* COMPLETED; COMPLETED and CANCELLED are never left; and CANCELLED is entered
\* only by a start that finds the phase STARTING, after closing the
\* registration where it was open.
C21_PhaseForward ==
    [][/\ tm.phase \in {"COMPLETED", "CANCELLED"} => tm'.phase = tm.phase
       /\ (tm.phase # "CANCELLED" /\ tm'.phase = "CANCELLED")
           => /\ tm'.last_call \in {Call("start", "ValueError"), Call("run", "ValueError")}
              /\ (IF tm.phase = "REGISTRATION" THEN close_registration(tm) ELSE tm).phase
                    = "STARTING"
       /\ (tm.phase # "CANCELLED" /\ tm'.phase # "CANCELLED")
           => PhaseOrder(tm.phase) <= PhaseOrder(tm'.phase)]_vars

\* A tournament of three or more players has played hands and is down to
\* the phase HEADS_UP.
C21_Witness ==
    /\ tm.phase = "HEADS_UP"
    /\ Cardinality(tm.registrations) >= 3
    /\ tm.hand_number >= 1
    /\ Len(tm.eliminations) >= 1

\* C22: right after a start that succeeds with three or more registered
\* players the phase is IN_PROGRESS.
C22_StartGivesInProgress ==
    (/\ tm.pc = "idle"
     /\ tm.last_call = Call("start", "none")
     /\ Cardinality(tm.registrations) >= 3)
    => tm.phase = "IN_PROGRESS"

\* The seats of the tables that hold the wallet, as <<table, position>>.
SeatsOf(tables, wallet) ==
    {tp \in {<<t, p>> : t \in DOMAIN tables, p \in 0..(MAX_SEATS - 1)} :
        tables[tp[1]].seats[tp[2]].player_wallet = wallet}

\* What C25 asks of the tables and seat assignments made for n players.
SeatingIsFair(seating, n) ==
    LET tables == seating.tables
        assignments == seating.assignments
    IN  /\ Len(tables) * MAX_SEATS >= n
        /\ (Len(tables) - 1) * MAX_SEATS < n
        /\ \A wallet \in 1..n :
              /\ Cardinality(SeatsOf(tables, wallet)) = 1
              /\ \A tp \in SeatsOf(tables, wallet) :
                    /\ tables[tp[1]].seats[tp[2]].stack = StartingStack
                    /\ tables[tp[1]].seats[tp[2]].status = "active"
        /\ \A t \in DOMAIN tables : \A p \in 0..(MAX_SEATS - 1) :
              tables[t].seats[p].player_wallet \in (1..n) \cup {NoWallet}
        /\ \A t, u \in DOMAIN tables :
              /\ player_count(tables[t]) <= MAX_SEATS
              /\ player_count(tables[t]) - player_count(tables[u]) <= 1
        /\ Len(assignments) = n
        /\ \A a \in DOMAIN assignments :
              /\ assignments[a].table_id \in DOMAIN tables
              /\ assignments[a].seat_position \in 0..(MAX_SEATS - 1)
              /\ tables[assignments[a].table_id].table_id = assignments[a].table_id
              /\ SeatsOf(tables, assignments[a].wallet)
                    = {<<assignments[a].table_id, assignments[a].seat_position>>}
              /\ assignments[a].starting_stack = StartingStack
        /\ \A a, b \in DOMAIN assignments :
              a # b => assignments[a].wallet # assignments[b].wallet

\* C25: for the n >= 1 players registered so far, in every order the shuffle may
\* put them and every order of the seats, create_seating builds
\* ceil(n / max_table_size) tables and seats every player exactly once, at a
\* seat of his own, with the starting stack; no table holds more than
\* max_table_size players, the sizes of two tables differ by at most one, and
\* every SeatAssignment names the table and seat that hold its wallet; the
\* tables and assignments a successful start leaves are such a seating.
C25_SeatingIsFair ==
    LET n == Cardinality(tm.registrations)
    IN  /\ (tm.phase = "REGISTRATION" /\ n >= 1) =>
              \A shuffled_players \in Shuffles(n) : \A seat_orders \in SeatOrders(n) :
                  SeatingIsFair(create_seating(shuffled_players, seat_orders, StartingStack), n)
        /\ (tm.pc = "idle" /\ tm.last_call = Call("start", "none"))
              => SeatingIsFair([tables |-> tm.tables, assignments |-> tm.seat_assignments], n)

\* A start has seated five players at two tables, three at one and two at
\* the other.
C25_Witness ==
    /\ tm.pc = "idle"
    /\ tm.last_call = Call("start", "none")
    /\ Cardinality(tm.registrations) = 2 * MAX_SEATS - 1
    /\ Len(tm.tables) = 2
    /\ player_count(tm.tables[1]) = MAX_SEATS
    /\ player_count(tm.tables[2]) = MAX_SEATS - 1
    /\ Len(tm.seat_assignments) = 2 * MAX_SEATS - 1

\* C26: the index of the blind level never decreases and never passes the
\* final level; it changes only by check_level_up at the head of the loop of
\* run, by exactly one level, and only when the timer of the level has been
\* started, the level is not the final one and its duration has elapsed; a
\* check_level_up with the timer not started, at the final level or before
\* the duration has elapsed changes nothing.
C26_LevelAdvancesByOne ==
    [][/\ tm.current_level_index >= 0
       /\ tm'.current_level_index <= Len(Levels) - 1
       /\ tm'.current_level_index \in {tm.current_level_index, tm.current_level_index + 1}
       /\ tm'.current_level_index # tm.current_level_index
           => /\ tm.pc = "loop"
              /\ tm.level_started
              /\ ~is_final_level(tm)
              /\ tm'.current_level_index = check_level_up(tm, TRUE).current_level_index
       /\ check_level_up(tm, FALSE) = tm
       /\ (~tm.level_started \/ is_final_level(tm)) => check_level_up(tm, TRUE) = tm
       /\ (tm.level_started /\ ~is_final_level(tm))
           => check_level_up(tm, TRUE) = [tm EXCEPT !.current_level_index = @ + 1]]_vars

\* The blinds have gone up to the final level and a later round of hands has
\* begun at it.
C26_Witness ==
    /\ tm.pc = "gather"
    /\ tm.level_started
    /\ tm.current_level_index = Len(Levels) - 1
    /\ tm.hand_number >= 2

\* The hand numbers of the controllers of m that are running.
NumbersRunning(m) ==
    {n \in 1..(MaxHandNumber + MAX_SEATS) :
        \E tid \in DOMAIN m.active_hands : m.active_hands[tid].hand_id = HandId(n)}

\* C28: the hands that run at one time have hand ids and deck seeds of
\* their own, those of hand numbers of their own; the hands a round begins
\* take the hand numbers that follow the last one given, one each, so no
\* hand number is given twice in a tournament; a controller keeps its hand
\* id and seed while it runs, and no controller is left in active_hands once
\* the round has finished.
C28_HandsHaveOwnNumbers ==
    [][/\ \A t \in DOMAIN tm'.active_hands :
             /\ \E n \in 1..tm'.hand_number :
                   /\ tm'.active_hands[t].hand_id = HandId(n)
                   /\ tm'.active_hands[t].deck_seed = generate_seed(n)
             /\ \A u \in DOMAIN tm'.active_hands :
                   t # u => /\ tm'.active_hands[t].hand_id # tm'.active_hands[u].hand_id
                            /\ tm'.active_hands[t].deck_seed # tm'.active_hands[u].deck_seed
       /\ (tm.pc = "loop" /\ tm'.pc = "gather")
             => /\ tm.active_hands = <<>>
                /\ NumbersRunning(tm') = (tm.hand_number + 1)..tm'.hand_number
                /\ Cardinality(DOMAIN tm'.active_hands) = tm'.hand_number - tm.hand_number
                /\ tm'.hand_number > tm.hand_number
       /\ ~(tm.pc = "loop" /\ tm'.pc = "gather")
             => /\ tm'.hand_number = tm.hand_number
                /\ DOMAIN tm'.active_hands \subseteq DOMAIN tm.active_hands
                /\ \A t \in DOMAIN tm'.active_hands :
                      /\ tm'.active_hands[t].hand_id = tm.active_hands[t].hand_id
                      /\ tm'.active_hands[t].deck_seed = tm.active_hands[t].deck_seed
       /\ tm'.pc # "gather" => tm'.active_hands = <<>>]_vars

\* Two tables play the hands 1 and 2 of the tournament at one time.
C28_Witness ==
    /\ tm.pc = "gather"
    /\ DOMAIN tm.active_hands = {1, 2}
    /\ tm.active_hands[1].hand_id = HandId(1)
    /\ tm.active_hands[2].hand_id = HandId(2)
    /\ tm.hand_number = 2

\* What the hand of table tid may have become after its next step: the
\* callback's answer applied, the callback's exception, or the showdown.
HandMoves(m, tid) ==
    LET h == m.active_hands[tid]
    IN  IF h.pc = "await"
        THEN {RunToStop(Decide(h, action)) : action \in Answers} \cup {CallbackFails(h)}
        ELSE IF h.pc = "showdown"
        THEN {RunToStop(RunStep([h EXCEPT !.strength = strength])) :
                 strength \in [DOMAIN h.players -> 1..MaxStrength]}
        ELSE {}

\* The manager with the table tid and its hand alone: the other tables
\* empty, their hands and results gone.
Alone(m, tid) ==
    [m EXCEPT !.tables = [i \in DOMAIN @ |-> IF i = tid THEN @[i] ELSE Table_init(i)],
              !.active_hands = [t \in {tid} |-> @[t]],
              !.results = [t \in {tid} |-> @[t]]]

\* C29: while the hands of a round run, a step of the hand of one table
\* writes to no seat of another table and leaves the hands and results of
\* the other tables as they were; the players of a hand sit at its table and
\* at no other; what the step leaves at its table is what it leaves with the
\* other tables empty and their hands gone; and the steps of the hands of
\* two tables leave the same manager in either order, neither changing what
\* the other hand may do next.
C29_TablesIndependent ==
    tm.pc = "gather" =>
        \A t \in DOMAIN tm.active_hands : \A ht \in HandMoves(tm, t) :
            LET mt == AfterHandStep(tm, t, ht)
            IN  /\ \A i \in DOMAIN tm.tables : i # t => mt.tables[i] = tm.tables[i]
                /\ \A u \in (DOMAIN tm.results) \ {t} :
                      /\ mt.results[u] = tm.results[u]
                      /\ u \in DOMAIN tm.active_hands
                            => (/\ u \in DOMAIN mt.active_hands
                                /\ mt.active_hands[u] = tm.active_hands[u])
                /\ \A i \in DOMAIN ht.players : \A tb \in DOMAIN tm.tables :
                      (get_player_seat(tm.tables[tb], ht.players[i].wallet) # NoSeat)
                         <=> (tb = t)
                /\ mt.tables[t] = AfterHandStep(Alone(tm, t), t, ht).tables[t]
                /\ \A u \in (DOMAIN tm.active_hands) \ {t} :
                      /\ HandMoves(mt, u) = HandMoves(tm, u)
                      /\ \A hu \in HandMoves(tm, u) :
                            AfterHandStep(mt, u, hu)
                               = AfterHandStep(AfterHandStep(tm, u, hu), t, ht)

\* The hand of the second table has returned and a seat of that table holds
\* the chips won, while the hand of the first table, begun before it, is
\* still asking for a decision after chips were put in beyond the blinds.
C29_Witness ==
    /\ tm.pc = "gather"
    /\ DOMAIN tm.active_hands = {1}
    /\ tm.active_hands[1].pc = "await"
    /\ tm.active_hands[1].pot > 3
    /\ 2 \in DOMAIN tm.results
    /\ tm.results[2].kind = "HandResult"
    /\ \E pos \in DOMAIN tm.tables[2].seats : tm.tables[2].seats[pos].stack > StartingStack
    /\ \A pos \in DOMAIN tm.tables[1].seats :
          tm.tables[1].seats[pos].stack \in {0, StartingStack}

\* The seats of manager m, as pairs of table and position.
AllSeats(m) == {<<tid, pos>> : tid \in DOMAIN m.tables, pos \in 0..(MAX_SEATS - 1)}

SeatAt(m, at) == m.tables[at[1]].seats[at[2]]

\* The places of the EliminationRecords of wallet in manager m.
RecordsOf(m, wallet) == {e \in 1..Len(m.eliminations) : m.eliminations[e].wallet = wallet}

\* C34: between the rounds of run every seat of status active holds chips
\* and every seat of status eliminated holds none and has exactly one
\* EliminationRecord; nobody has two records; a hand is dealt only to the
\* active seats of its table, none of them eliminated; and a seat that is
\* eliminated stays as it is, its player seated nowhere else.
C34_EliminatedStayOut ==
    /\ [](/\ tm.pc \in {"balance", "update", "loop", "payouts"}
               => \A at \in AllSeats(tm) :
                     /\ SeatAt(tm, at).status = "active" => SeatAt(tm, at).stack > 0
                     /\ SeatAt(tm, at).status = "eliminated"
                           => /\ SeatAt(tm, at).stack = 0
                              /\ Cardinality(RecordsOf(tm, SeatAt(tm, at).player_wallet)) = 1
          /\ \A w \in tm.registrations : Cardinality(RecordsOf(tm, w)) <= 1
          /\ \A tid \in DOMAIN tm.active_hands :
             \A i \in DOMAIN tm.active_hands[tid].players :
                LET w == tm.active_hands[tid].players[i].wallet
                IN  /\ RecordsOf(tm, w) = {}
                    /\ tm.active_hands[tid].start_stack[i] > 0
                    /\ \E pos \in 0..(MAX_SEATS - 1) :
                          /\ tm.tables[tid].seats[pos].player_wallet = w
                          /\ tm.tables[tid].seats[pos].status = "active"
          /\ \A at, other \in AllSeats(tm) :
                (/\ SeatAt(tm, at).status = "eliminated"
                 /\ SeatAt(tm, other).player_wallet = SeatAt(tm, at).player_wallet)
                   => other = at)
    /\ [][\A at \in AllSeats(tm) :
             SeatAt(tm, at).status = "eliminated" => SeatAt(tm', at) = SeatAt(tm, at)]_vars

\* A player lost the last chips in the first round and has a record; the
\* second round deals a hand at that player's table to the two others.
C34_Witness ==
    /\ tm.pc = "gather"
    /\ \E tid \in DOMAIN tm.active_hands :
       \E pos \in 0..(MAX_SEATS - 1) :
          /\ tm.tables[tid].seats[pos].status = "eliminated"
          /\ tm.tables[tid].seats[pos].stack = 0
          /\ Cardinality(RecordsOf(tm, tm.tables[tid].seats[pos].player_wallet)) = 1
          /\ NumPlayers(tm.active_hands[tid]) = 2
          /\ tm.active_hands[tid].pc = "await"

\* A step seats somebody at a seat that was empty or empties a seat that
\* was taken, at tables that stand: the work of apply_move.
SeatsMove(m, m2) ==
    /\ DOMAIN m2.tables = DOMAIN m.tables
    /\ \E at \in AllSeats(m) :
          /\ SeatAt(m2, at).player_wallet # SeatAt(m, at).player_wallet
          /\ "empty" \in {SeatAt(m, at).status, SeatAt(m2, at).status}

\* C35: a player is moved between tables only by the balancing of run, with
\* no hand in progress before or after the move; a hand is in progress only
\* while run gathers the hands of a round; and hands begin only at the head
\* of the loop of run, which the balancing of the round before has left.
C35_MovesBetweenHands ==
    /\ [](/\ tm.active_hands # <<>> => tm.pc = "gather"
          /\ tm.pc \in {"balance", "update", "loop"} => tm.active_hands = <<>>)
    /\ [][/\ SeatsMove(tm, tm')
                => /\ tm.pc = "balance"
                   /\ tm'.pc = "update"
                   /\ tm.active_hands = <<>>
                   /\ tm'.active_hands = <<>>
          /\ (DOMAIN tm'.active_hands) \ (DOMAIN tm.active_hands) # {}
                => /\ tm.pc = "loop"
                   /\ tm.active_hands = <<>>
          /\ tm.pc = "balance" => tm'.pc = "update"
          /\ tm'.pc = "loop" => tm.pc \in {"update", "idle"}]_vars

\* The balancing of a round has moved a player: the player sits, active, at
\* a table other than the one of the player's SeatAssignment.
C35_Witness ==
    /\ tm.pc = "update"
    /\ tm.active_hands = <<>>
    /\ \E k \in 1..Len(tm.seat_assignments) :
       \E at \in AllSeats(tm) :
          /\ SeatAt(tm, at).player_wallet = tm.seat_assignments[k].wallet
          /\ SeatAt(tm, at).status = "active"
          /\ tm.tables[at[1]].table_id # tm.seat_assignments[k].table_id

\* The blinds and the ante of hand h are those of blind level lv.
PlayedAt(h, lv) ==
    /\ h.small_blind = lv.small_blind
    /\ h.big_blind = lv.big_blind
    /\ h.ante = lv.ante

\* C36: every hand in progress is played at the current blind level, so all
\* hands of a round at the same one; the level changes only in the step of
\* run that begins a round, with no hand in progress, and the hands of that
\* round are created at the new level.
C36_RoundAtOneLevel ==
    /\ [](\A tid \in DOMAIN tm.active_hands :
              PlayedAt(tm.active_hands[tid], current_level(tm)))
    /\ [][tm'.current_level_index # tm.current_level_index
             => /\ tm.pc = "loop"
                /\ tm.active_hands = <<>>
                /\ tm'.current_level_index = tm.current_level_index + 1
                /\ \A tid \in DOMAIN tm'.active_hands :
                      PlayedAt(tm'.active_hands[tid], Levels[tm'.current_level_index + 1])]_vars

\* The level went up to the one with an ante at the head of a round of two
\* tables: both hands are played with the ante and one of them has asked
\* for a decision.
C36_Witness ==
    /\ tm.pc = "gather"
    /\ tm.current_level_index = 1
    /\ Cardinality(DOMAIN tm.active_hands) = 2
    /\ \A tid \in DOMAIN tm.active_hands : tm.active_hands[tid].ante = 1
    /\ \E tid \in DOMAIN tm.active_hands : tm.active_hands[tid].asked # NoWallet

\* The player of hand h at the index of the big blind has paid the big
\* blind and the ante, or the whole stack when it is less, and nothing else.
PostedBigBlind(h) ==
    LET idx == _get_bb_player_idx(h)
    IN  h.players[idx].stack =
            h.start_stack[idx] - LesserOf(h.big_blind + h.ante, h.start_stack[idx])

\* C37: in the step of run that begins a round, the wallet that
\* get_next_big_blind_player returns for a table before its button is
\* advanced is the wallet of the player who posts the big blind in the hand
\* created on that table: the player not on the new button when two play,
\* the second active seat after the new button when more do.
C37_NextBigBlindPosts ==
    [][(tm.pc = "loop" /\ tm'.pc = "gather")
          => \A tid \in DOMAIN tm'.active_hands :
                LET before == tm.tables[tid]
                    table == tm'.tables[tid]
                    h == tm'.active_hands[tid]
                    bb == h.players[_get_bb_player_idx(h)]
                    seat == get_player_seat(table, bb.wallet)
                IN  /\ get_next_big_blind_player(before) # NoWallet
                    /\ get_next_big_blind_player(before) = bb.wallet
                    /\ table.button_position = NextActiveAfter(before, before.button_position)
                    /\ table.seats = before.seats
                    /\ h.pc \in {"await", "showdown"} => PostedBigBlind(h)
                    /\ IF NumPlayers(h) = 2
                       THEN seat # table.button_position
                       ELSE seat = NextActiveAfter(table,
                                       NextActiveAfter(table, table.button_position))]_vars

\* A hand of a table of three has begun and waits for its first
\* decision: the big blind and the ante were paid by the player in the
\* second active seat after the button, which is not the first seat after it.
C37_Witness ==
    /\ tm.pc = "gather"
    /\ \E tid \in DOMAIN tm.active_hands :
          LET h == tm.active_hands[tid]
              table == tm.tables[tid]
              bb == h.players[_get_bb_player_idx(h)]
          IN  /\ NumPlayers(h) = 3
              /\ h.pc = "await"
              /\ h.phase = "PREFLOP"
              /\ h.pot = h.small_blind + h.big_blind + h.ante
              /\ PostedBigBlind(h)
              /\ bb.current_bet = h.big_blind + h.ante
              /\ get_player_seat(table, bb.wallet) =
                     NextActiveAfter(table, NextActiveAfter(table, table.button_position))
              /\ get_player_seat(table, bb.wallet) #
                     NextActiveAfter(table, table.button_position)

\* C31: run on a started tournament comes to its end when the callback
\* always returns an action that is legal: the phase becomes COMPLETED and
\* run returns the list of PointsAward.
C31_TournamentCompletes ==
    <>(/\ tm.pc = "idle"
       /\ tm.phase = "COMPLETED"
       /\ tm.last_call = Call("run", "returned"))

(***************************************************************************)
(* Claims about Deck (SpecDeck)                                            *)
(***************************************************************************)
\* C23: a deal of count cards with 0 <= count <= remaining() returns the next
\* count cards of the shuffled deck and raises nothing, any other deal raises
\* ValueError and leaves the deck as it was; no card is returned twice, the
\* cards returned once the deck is dealt out are exactly the cards of CARDS,
\* and remaining() is the size of the deck less the number of cards returned.
C23_DealsEachCardOnce ==
    [][/\ IF hand'.count >= 0 /\ hand'.count <= remaining(hand.deck)
          THEN /\ hand'.error = "none"
               /\ hand'.dealt_cards
                     = SubSeq(hand.deck.cards, Len(hand.returned) + 1,
                              Len(hand.returned) + hand'.count)
               /\ Len(hand'.dealt_cards) = hand'.count
          ELSE /\ hand'.error = "ValueError"
               /\ hand'.deck = hand.deck
       /\ \A a, b \in DOMAIN hand'.returned :
             a # b => hand'.returned[a] # hand'.returned[b]
       /\ remaining(hand'.deck) = Len(CARDS) - Len(hand'.returned)
       /\ remaining(hand'.deck) = 0
             => {hand'.returned[a] : a \in DOMAIN hand'.returned}
                  = {CARDS[k] : k \in DOMAIN CARDS}]_vars

\* A deck that the shuffle has reordered is dealt out, and a deal of one
\* card more has raised ValueError.
C23_Witness ==
    /\ hand.deck.cards # CARDS
    /\ remaining(hand.deck) = 0
    /\ Len(hand.returned) = DeckSize
    /\ hand.count = 1
    /\ hand.error = "ValueError"

EvaluatedHands == {_evaluate_five_cards(cards) : cards \in FiveCards}

ValuesIn(cards) == {RANK_VALUES[cards[k].rank] : k \in 1..Len(cards)}

OneSuit(cards) == \A j, k \in 1..Len(cards) : cards[j].suit = cards[k].suit

\* What the cards are, told from the cards alone.
IsWheel(cards) == Len(cards) = 5 /\ ValuesIn(cards) = {0, 1, 2, 3, Ace} /\ ~OneSuit(cards)

IsSixHighStraight(cards) ==
    Len(cards) = 5 /\ ValuesIn(cards) = {0, 1, 2, 3, 4} /\ ~OneSuit(cards)

IsThreeOfAKind(cards) ==
    /\ Len(cards) = 5
    /\ Cardinality(ValuesIn(cards)) = 3
    /\ \E v \in ValuesIn(cards) :
          Cardinality({k \in 1..5 : RANK_VALUES[cards[k].rank] = v}) = 3

IsRoyalFlush(cards) ==
    Len(cards) = 5 /\ ValuesIn(cards) = (Ace - 4)..Ace /\ OneSuit(cards)

IsLesserStraightFlush(cards) ==
    /\ Len(cards) = 5
    /\ OneSuit(cards)
    /\ \/ ValuesIn(cards) = {0, 1, 2, 3, Ace}
       \/ \E low \in 0..(Ace - 5) : ValuesIn(cards) = low..(low + 4)

ExactlyOne(a, b, c) == (a /\ ~b /\ ~c) \/ (~a /\ b /\ ~c) \/ (~a /\ ~b /\ c)

Transitive(a, b, c) ==
    /\ (__lt__(a, b) /\ __lt__(b, c)) => __lt__(a, c)
    /\ (__gt__(a, b) /\ __gt__(b, c)) => __gt__(a, c)
    /\ (__eq__(a, b) /\ __eq__(b, c)) => __eq__(a, c)
    /\ (__le__(a, b) /\ __le__(b, c)) => __le__(a, c)

\* The evaluations of the hands compared with.
OpponentHands == {_evaluate_five_cards(cards) : cards \in Opponents}

\* C27: of two EvaluatedHands exactly one of <, == and > holds, and compare
\* tells which; the comparison is transitive over the hand evaluated and the
\* hands it is compared with; the wheel ranks below the six-high straight
\* and above every three of a kind, and the royal flush above every other
\* straight flush.
C27_HandsTotallyOrdered ==
    LET e == hand.evaluated
        o == hand.opponent
    IN  /\ hand.pc = "evaluated" =>
              \A z \in EvaluatedHands :
                  /\ ExactlyOne(__lt__(e, z), __eq__(e, z), __gt__(e, z))
                  /\ ExactlyOne(__lt__(z, e), __eq__(z, e), __gt__(z, e))
                  /\ __lt__(e, z) <=> __gt__(z, e)
                  /\ __ge__(e, z) <=> __le__(z, e)
        /\ hand.pc = "compared" =>
              /\ ExactlyOne(__lt__(e, o), __eq__(e, o), __gt__(e, o))
              /\ hand.compared
                    = (IF __lt__(e, o) THEN 0 - 1 ELSE IF __gt__(e, o) THEN 1 ELSE 0)
              /\ \A z \in OpponentHands :
                    /\ Transitive(e, o, z)
                    /\ Transitive(o, e, z)
                    /\ Transitive(e, z, o)
                    /\ Transitive(o, z, e)
                    /\ Transitive(z, e, o)
                    /\ Transitive(z, o, e)
              /\ (IsWheel(hand.cards) /\ IsSixHighStraight(hand.against))
                    => hand.compared = 0 - 1
              /\ (IsSixHighStraight(hand.cards) /\ IsWheel(hand.against))
                    => hand.compared = 1
              /\ (IsWheel(hand.cards) /\ IsThreeOfAKind(hand.against)) => hand.compared = 1
              /\ (IsThreeOfAKind(hand.cards) /\ IsWheel(hand.against))
                    => hand.compared = 0 - 1
              /\ (IsRoyalFlush(hand.cards) /\ IsLesserStraightFlush(hand.against))
                    => hand.compared = 1
              /\ (IsLesserStraightFlush(hand.cards) /\ IsRoyalFlush(hand.against))
                    => hand.compared = 0 - 1

\* Three aces with a six and a five have been compared with the wheel and
\* have lost to it.
C27_Witness ==
    /\ hand.pc = "compared"
    /\ IsThreeOfAKind(hand.cards)
    /\ ValuesIn(hand.cards) = {Ace, Ace - 1, Ace - 2}
    /\ hand.evaluated = EvaluatedHand(THREE_OF_A_KIND, <<Ace, Ace - 1, Ace - 2>>)
    /\ IsWheel(hand.against)
    /\ hand.opponent = EvaluatedHand(STRAIGHT, <<3, 2, 1, 0, 0 - 1>>)
    /\ hand.compared = 0 - 1

====
